---- MODULE Spec2Model ----
(***************************************************************************)
(* Eligibility & Risk Decision Engine of bharath-bridge.                   *)
(*                                                                         *)
(* The module models the scheme catalog (knowledge/schemes_data.py), the   *)
(* knowledge graph built from it and its queries (knowledge/graph.py), the *)
(* two rejection scorers (engine/validation.py, engine/rejection_model.py) *)
(* and the agents that combine them (agents/adversarial.py,                *)
(* agents/eligibility.py).                                                 *)
(*                                                                         *)
(* Conventions                                                             *)
(*  - A Python string that the code parses (a rule value) is a sequence of *)
(*    tokens: one-character strings for digits, sign, point, blank and     *)
(*    comma, and whole words for identifiers.  int(), float(), split(",")  *)
(*    and strip() are modelled on these tokens.                            *)
(*  - An Optional value is <<>> (None) or <<v>>.                           *)
(*  - A float is an exact rational <<n, d>> with d > 0, kept in lowest     *)
(*    terms.  round(x, k) rounds to the nearest.  Where the exact value    *)
(*    lies halfway between two neighbours, or a comparison x >= t meets    *)
(*    x = t exactly, the binary floating-point computation is decided by   *)
(*    the representation error of its operands, which the rationals do     *)
(*    not carry.  Every such place of a call has a key; the call may       *)
(*    resolve each key either way, and tieUp holds the keys it resolved    *)
(*    upwards.                                                             *)
(*  - An operation's outcome is [exc |-> "none", value |-> v] or           *)
(*    [exc |-> <exception name>].                                          *)
(***************************************************************************)
EXTENDS Integers, Sequences, FiniteSets, TLC

VARIABLES catalog,   \* SCHEMES: the sequence of scheme records
          graph,     \* SchemeGraph.graph: nodes and relation-labelled edges
          tieUp,     \* the floating-point ties the last call resolved upwards
          op,        \* the operation that ran last ("idle" between calls)
          args,      \* its arguments
          ret,       \* its outcome, held under op: results of different
                     \* operations have different types and are never compared
          profile,   \* the CitizenProfile the caller passed, as the call left
                     \* it: <<c>>, or <<>> when the call takes no citizen
          citizens,      \* profiler._citizens: the profiles, in order of creation
          applications,  \* execution._applications: in order of creation
          pipelines      \* orchestrator._pipelines: in order of creation

vars == <<catalog, graph, tieUp, op, args, ret, profile,
          citizens, applications, pipelines>>

(***************************************************************************)
(* Sequences and sets                                                      *)
(***************************************************************************)
Range(s) == {s[i] : i \in 1..Len(s)}

InSeq(x, s) == \E i \in 1..Len(s) : s[i] = x

NoDup(s) == \A i, j \in 1..Len(s) : s[i] = s[j] => i = j

\* [f(x) for x in s if p(x)] for a membership test p given as a set
KeepIn(s, S) == SelectSeq(s, LAMBDA x : x \in S)

KeepNotIn(s, S) == SelectSeq(s, LAMBDA x : x \notin S)

\* All sequences over S of length 0..n
SeqsUpTo(S, n) == UNION {[1..k -> S] : k \in 0..n}

\* F applied to the value of x, x evaluated once
Bind(x, F(_)) == CHOOSE r \in {F(v) : v \in {x}} : TRUE

(***************************************************************************)
(* Exact rationals <<n, d>>, d > 0, in lowest terms                        *)
(***************************************************************************)
Abs(x) == IF x < 0 THEN -x ELSE x

RECURSIVE GCD(_, _)
GCD(a, b) == IF b = 0 THEN a ELSE GCD(b, a % b)

RNorm(n, d) ==
    LET g == GCD(Abs(n), Abs(d))
        s == IF d < 0 THEN -1 ELSE 1
    IN  IF g = 0 THEN <<0, 1>> ELSE <<s * (n \div g), s * (d \div g)>>

RInt(n) == <<n, 1>>
RAdd(a, b) == RNorm(a[1] * b[2] + b[1] * a[2], a[2] * b[2])
RSub(a, b) == RNorm(a[1] * b[2] - b[1] * a[2], a[2] * b[2])
RMul(a, b) == RNorm(a[1] * b[1], a[2] * b[2])
RDiv(a, b) == RNorm(a[1] * b[2], a[2] * b[1])
RLt(a, b)  == a[1] * b[2] < b[1] * a[2]
RLeq(a, b) == a[1] * b[2] <= b[1] * a[2]
RMin(a, b) == IF RLt(b, a) THEN b ELSE a      \* Python min(a, b)
RMax(a, b) == IF RLt(a, b) THEN b ELSE a      \* Python max(a, b)

\* floor(x * 10^k) for k given by its scale 10^k
RFloor(x, scale) == (x[1] * scale) \div x[2]

\* x * scale is an integer plus exactly one half
RTie(x, scale) == (2 * x[1] * scale) % (2 * x[2]) = x[2]

\* round(x, k) in units of 10^-k, with ties resolved upwards or downwards
RoundTo(x, scale, up) ==
    LET f == RFloor(x, scale)
        r == (2 * x[1] * scale) % (2 * x[2])
    IN  IF r = x[2] THEN (IF up THEN f + 1 ELSE f)
        ELSE IF r > x[2] THEN f + 1
        ELSE f

\* round(x, 2) in hundredths, at the place key of a call that resolves the
\* ties in up upwards
Round2(x, key, up) == RoundTo(x, 100, key \in up)

\* The key of the tie at a place of the code, for a scheme and an index
TieKey(site, scheme_id, i) == <<site, scheme_id, ToString(i)>>

\* {key} if x lies halfway between two hundredths
TieIfHalf(x, key) == IF RTie(x, 100) THEN {key} ELSE {}

(***************************************************************************)
(* Strings the code parses: token sequences                                *)
(***************************************************************************)
DigitVal == [c \in {"0","1","2","3","4","5","6","7","8","9"} |->
               CASE c = "0" -> 0 [] c = "1" -> 1 [] c = "2" -> 2 [] c = "3" -> 3
                 [] c = "4" -> 4 [] c = "5" -> 5 [] c = "6" -> 6 [] c = "7" -> 7
                 [] c = "8" -> 8 [] c = "9" -> 9]

IsDigit(c) == c \in DOMAIN DigitVal

\* str.strip(): leading and trailing blanks removed
RECURSIVE LStrip(_)
LStrip(s) == IF s # <<>> /\ Head(s) = " " THEN LStrip(Tail(s)) ELSE s

RECURSIVE RStrip(_)
RStrip(s) ==
    IF s # <<>> /\ s[Len(s)] = " " THEN RStrip(SubSeq(s, 1, Len(s) - 1)) ELSE s

Strip(s) == RStrip(LStrip(s))

\* str.split(","): the pieces between commas (always at least one piece)
RECURSIVE SplitComma(_, _, _)
SplitComma(s, cur, acc) ==
    IF s = <<>> THEN Append(acc, cur)
    ELSE IF Head(s) = "," THEN SplitComma(Tail(s), <<>>, Append(acc, cur))
    ELSE SplitComma(Tail(s), Append(cur, Head(s)), acc)

\* [x.strip() for x in val.split(",")]
SplitStrip(val) ==
    LET parts == SplitComma(val, <<>>, <<>>)
    IN  [i \in 1..Len(parts) |-> Strip(parts[i])]

\* The value of a non-empty run of digits
RECURSIVE DigitsValue(_, _)
DigitsValue(s, acc) ==
    IF s = <<>> THEN acc ELSE DigitsValue(Tail(s), 10 * acc + DigitVal[Head(s)])

AllDigits(s) == \A i \in 1..Len(s) : IsDigit(s[i])

Unsigned(s) == IF s # <<>> /\ Head(s) \in {"+", "-"} THEN Tail(s) ELSE s

SignOf(s) == IF s # <<>> /\ Head(s) = "-" THEN -1 ELSE 1

\* int(val): blanks around, an optional sign, then digits only; anything else
\* (a decimal point, a word, the empty string) raises ValueError.  The values
\* of the model hold no underscore between digits, which int() also accepts.
ParseInt(val) ==
    LET body == Unsigned(Strip(val))
    IN  IF body # <<>> /\ AllDigits(body)
        THEN [ok |-> TRUE, v |-> SignOf(Strip(val)) * DigitsValue(body, 0)]
        ELSE [ok |-> FALSE, v |-> 0]

RECURSIVE Pow10(_)
Pow10(k) == IF k = 0 THEN 1 ELSE 10 * Pow10(k - 1)

\* float(val): blanks around, an optional sign, digits with at most one
\* decimal point and at least one digit; anything else raises ValueError.
\* The values of the model hold no exponent, underscore, "inf" or "nan",
\* which float() also accepts.
ParseFloat(val) ==
    LET body   == Unsigned(Strip(val))
        points == {i \in 1..Len(body) : body[i] = "."}
        digits == SelectSeq(body, IsDigit)
        frac   == IF points = {} THEN 0
                  ELSE Len(body) - (CHOOSE i \in points : TRUE)
    IN  IF /\ digits # <<>>
           /\ Cardinality(points) <= 1
           /\ \A i \in 1..Len(body) : IsDigit(body[i]) \/ body[i] = "."
        THEN [ok |-> TRUE,
              v  |-> RNorm(SignOf(Strip(val)) * DigitsValue(digits, 0), Pow10(frac))]
        ELSE [ok |-> FALSE, v |-> <<0, 1>>]

\* str.lower() on the words the model uses
Lower(w) == CASE w = "Kerala" -> "kerala" [] w = "KERALA" -> "kerala" [] OTHER -> w

LowerSeq(s) == [i \in 1..Len(s) |-> Lower(s[i])]

(***************************************************************************)
(* The scheme catalog (knowledge/schemes_data.py).  approval_rate is the   *)
(* decimal literal of the source as a rational; benefit_amount is in INR.  *)
(***************************************************************************)
PmKisan ==
    [scheme_id |-> "pm_kisan",
     name |-> "PM-KISAN Samman Nidhi",
     benefit_amount |-> 6000,
     eligibility_rules |-> <<
         [rule_id |-> "pmk_1", rule_type |-> "occupation", condition |-> "==",
           value |-> <<"farmer">>,
           description |-> "Must be a farmer"],
         [rule_id |-> "pmk_2", rule_type |-> "income_max", condition |-> "<=",
           value |-> <<"5", "0", "0", "0", "0", "0">>,
           description |-> "Annual income <= Rs 5 lakh"]>>,
     required_documents |-> <<"aadhaar", "bank_statement", "income_certificate">>,
     execution_tier |-> 1,
     approval_rate |-> RNorm(85, 100),
     depends_on |-> <<>>,
     conflicts_with |-> <<>>]

PmUjjwala ==
    [scheme_id |-> "pm_ujjwala",
     name |-> "Pradhan Mantri Ujjwala Yojana",
     benefit_amount |-> 1600,
     eligibility_rules |-> <<
         [rule_id |-> "uj_1", rule_type |-> "gender", condition |-> "==",
           value |-> <<"female">>,
           description |-> "Applicant must be female"],
         [rule_id |-> "uj_2", rule_type |-> "bpl", condition |-> "==",
           value |-> <<"true">>,
           description |-> "Must belong to BPL household"],
         [rule_id |-> "uj_3", rule_type |-> "age_min", condition |-> ">=",
           value |-> <<"1", "8">>,
           description |-> "Age >= 18"]>>,
     required_documents |-> <<"aadhaar", "bpl_card", "bank_statement">>,
     execution_tier |-> 2,
     approval_rate |-> RNorm(80, 100),
     depends_on |-> <<>>,
     conflicts_with |-> <<>>]

Pmay ==
    [scheme_id |-> "pmay",
     name |-> "Pradhan Mantri Awas Yojana (Gramin)",
     benefit_amount |-> 120000,
     eligibility_rules |-> <<
         [rule_id |-> "pmay_1", rule_type |-> "bpl", condition |-> "==",
           value |-> <<"true">>,
           description |-> "BPL household"],
         [rule_id |-> "pmay_2", rule_type |-> "income_max", condition |-> "<=",
           value |-> <<"3", "0", "0", "0", "0", "0">>,
           description |-> "Annual income <= Rs 3 lakh"]>>,
     required_documents |-> <<"aadhaar", "income_certificate", "bpl_card", "bank_statement">>,
     execution_tier |-> 2,
     approval_rate |-> RNorm(65, 100),
     depends_on |-> <<"pm_jan_dhan">>,
     conflicts_with |-> <<>>]

PmJanDhan ==
    [scheme_id |-> "pm_jan_dhan",
     name |-> "Pradhan Mantri Jan Dhan Yojana",
     benefit_amount |-> 10000,
     eligibility_rules |-> <<
         [rule_id |-> "jdy_1", rule_type |-> "age_min", condition |-> ">=",
           value |-> <<"1", "0">>,
           description |-> "Age >= 10"]>>,
     required_documents |-> <<"aadhaar">>,
     execution_tier |-> 1,
     approval_rate |-> RNorm(95, 100),
     depends_on |-> <<>>,
     conflicts_with |-> <<>>]

SukanyaSamriddhi ==
    [scheme_id |-> "sukanya_samriddhi",
     name |-> "Sukanya Samriddhi Yojana",
     benefit_amount |-> 250000,
     eligibility_rules |-> <<
         [rule_id |-> "ssy_1", rule_type |-> "has_daughters", condition |-> "==",
           value |-> <<"true">>,
           description |-> "Must have at least one daughter"],
         [rule_id |-> "ssy_2", rule_type |-> "custom", condition |-> "child_age_max",
           value |-> <<"1", "0">>,
           description |-> "Daughter's age <= 10"]>>,
     required_documents |-> <<"aadhaar", "birth_certificate", "bank_statement">>,
     execution_tier |-> 2,
     approval_rate |-> RNorm(90, 100),
     depends_on |-> <<>>,
     conflicts_with |-> <<"beti_bachao">>]

BetiBachao ==
    [scheme_id |-> "beti_bachao",
     name |-> "Beti Bachao Beti Padhao",
     benefit_amount |-> 50000,
     eligibility_rules |-> <<
         [rule_id |-> "bb_1", rule_type |-> "has_daughters", condition |-> "==",
           value |-> <<"true">>,
           description |-> "Must have at least one daughter"]>>,
     required_documents |-> <<"aadhaar", "birth_certificate", "income_certificate">>,
     execution_tier |-> 2,
     approval_rate |-> RNorm(75, 100),
     depends_on |-> <<>>,
     conflicts_with |-> <<"sukanya_samriddhi">>]

PmMatruVandana ==
    [scheme_id |-> "pm_matru_vandana",
     name |-> "Pradhan Mantri Matru Vandana Yojana",
     benefit_amount |-> 5000,
     eligibility_rules |-> <<
         [rule_id |-> "mv_1", rule_type |-> "gender", condition |-> "==",
           value |-> <<"female">>,
           description |-> "Must be female"],
         [rule_id |-> "mv_2", rule_type |-> "pregnant", condition |-> "==",
           value |-> <<"true">>,
           description |-> "Must be pregnant or lactating"],
         [rule_id |-> "mv_3", rule_type |-> "age_min", condition |-> ">=",
           value |-> <<"1", "9">>,
           description |-> "Age >= 19"]>>,
     required_documents |-> <<"aadhaar", "bank_statement", "income_certificate">>,
     execution_tier |-> 2,
     approval_rate |-> RNorm(78, 100),
     depends_on |-> <<>>,
     conflicts_with |-> <<>>]

NsapPension ==
    [scheme_id |-> "nsap_pension",
     name |-> "Indira Gandhi National Old Age Pension",
     benefit_amount |-> 6000,
     eligibility_rules |-> <<
         [rule_id |-> "nsap_1", rule_type |-> "age_min", condition |-> ">=",
           value |-> <<"6", "0">>,
           description |-> "Age >= 60"],
         [rule_id |-> "nsap_2", rule_type |-> "bpl", condition |-> "==",
           value |-> <<"true">>,
           description |-> "Must belong to BPL household"]>>,
     required_documents |-> <<"aadhaar", "bpl_card", "bank_statement", "income_certificate">>,
     execution_tier |-> 2,
     approval_rate |-> RNorm(70, 100),
     depends_on |-> <<>>,
     conflicts_with |-> <<>>]

AtalPension ==
    [scheme_id |-> "atal_pension",
     name |-> "Atal Pension Yojana",
     benefit_amount |-> 60000,
     eligibility_rules |-> <<
         [rule_id |-> "apy_1", rule_type |-> "age_min", condition |-> ">=",
           value |-> <<"1", "8">>,
           description |-> "Age >= 18"],
         [rule_id |-> "apy_2", rule_type |-> "age_max", condition |-> "<=",
           value |-> <<"4", "0">>,
           description |-> "Age <= 40"],
         [rule_id |-> "apy_3", rule_type |-> "income_max", condition |-> "<=",
           value |-> <<"1", "8", "0", "0", "0", "0">>,
           description |-> "Annual income <= Rs 1.8 lakh (tax-exempt)"]>>,
     required_documents |-> <<"aadhaar", "bank_statement">>,
     execution_tier |-> 1,
     approval_rate |-> RNorm(88, 100),
     depends_on |-> <<>>,
     conflicts_with |-> <<>>]

NationalScholarship ==
    [scheme_id |-> "national_scholarship",
     name |-> "National Scholarship Portal - Post-Matric Scholarship",
     benefit_amount |-> 36000,
     eligibility_rules |-> <<
         [rule_id |-> "nsp_1", rule_type |-> "caste", condition |-> "in",
           value |-> <<"sc", ",", "st", ",", "obc">>,
           description |-> "Must be SC/ST/OBC"],
         [rule_id |-> "nsp_2", rule_type |-> "education_min", condition |-> ">=",
           value |-> <<"higher_secondary">>,
           description |-> "Completed higher secondary"],
         [rule_id |-> "nsp_3", rule_type |-> "income_max", condition |-> "<=",
           value |-> <<"2", "5", "0", "0", "0", "0">>,
           description |-> "Family income <= Rs 2.5 lakh"]>>,
     required_documents |-> <<"aadhaar", "caste_certificate", "income_certificate", "educational_certificate", "bank_statement">>,
     execution_tier |-> 1,
     approval_rate |-> RNorm(72, 100),
     depends_on |-> <<>>,
     conflicts_with |-> <<>>]

AyushmanBharat ==
    [scheme_id |-> "ayushman_bharat",
     name |-> "Ayushman Bharat - PM Jan Arogya Yojana",
     benefit_amount |-> 500000,
     eligibility_rules |-> <<
         [rule_id |-> "ab_1", rule_type |-> "bpl", condition |-> "==",
           value |-> <<"true">>,
           description |-> "BPL or deprived household"],
         [rule_id |-> "ab_2", rule_type |-> "income_max", condition |-> "<=",
           value |-> <<"3", "0", "0", "0", "0", "0">>,
           description |-> "Annual income <= Rs 3 lakh"]>>,
     required_documents |-> <<"aadhaar", "ration_card", "income_certificate">>,
     execution_tier |-> 1,
     approval_rate |-> RNorm(82, 100),
     depends_on |-> <<>>,
     conflicts_with |-> <<>>]

MudraLoan ==
    [scheme_id |-> "mudra_loan",
     name |-> "Pradhan Mantri Mudra Yojana",
     benefit_amount |-> 1000000,
     eligibility_rules |-> <<
         [rule_id |-> "mud_1", rule_type |-> "age_min", condition |-> ">=",
           value |-> <<"1", "8">>,
           description |-> "Age >= 18"],
         [rule_id |-> "mud_2", rule_type |-> "occupation", condition |-> "in",
           value |-> <<"self_employed", ",", "farmer">>,
           description |-> "Self-employed or micro-enterprise"]>>,
     required_documents |-> <<"aadhaar", "pan", "bank_statement", "income_certificate">>,
     execution_tier |-> 2,
     approval_rate |-> RNorm(68, 100),
     depends_on |-> <<>>,
     conflicts_with |-> <<>>]

DisabilityPension ==
    [scheme_id |-> "disability_pension",
     name |-> "Indira Gandhi National Disability Pension",
     benefit_amount |-> 3600,
     eligibility_rules |-> <<
         [rule_id |-> "dp_1", rule_type |-> "disability", condition |-> "==",
           value |-> <<"true">>,
           description |-> "Must have >=80% disability"],
         [rule_id |-> "dp_2", rule_type |-> "age_min", condition |-> ">=",
           value |-> <<"1", "8">>,
           description |-> "Age >= 18"],
         [rule_id |-> "dp_3", rule_type |-> "age_max", condition |-> "<=",
           value |-> <<"7", "9">>,
           description |-> "Age <= 79"],
         [rule_id |-> "dp_4", rule_type |-> "bpl", condition |-> "==",
           value |-> <<"true">>,
           description |-> "BPL household"]>>,
     required_documents |-> <<"aadhaar", "disability_certificate", "bpl_card", "bank_statement">>,
     execution_tier |-> 2,
     approval_rate |-> RNorm(72, 100),
     depends_on |-> <<>>,
     conflicts_with |-> <<>>]

NfsaRation ==
    [scheme_id |-> "nfsa_ration",
     name |-> "National Food Security Act - Subsidized Ration",
     benefit_amount |-> 7200,
     eligibility_rules |-> <<
         [rule_id |-> "nfsa_1", rule_type |-> "bpl", condition |-> "==",
           value |-> <<"true">>,
           description |-> "BPL household"]>>,
     required_documents |-> <<"aadhaar", "ration_card", "income_certificate">>,
     execution_tier |-> 2,
     approval_rate |-> RNorm(88, 100),
     depends_on |-> <<>>,
     conflicts_with |-> <<>>]

StandupIndia ==
    [scheme_id |-> "standup_india",
     name |-> "Stand-Up India Scheme",
     benefit_amount |-> 10000000,
     eligibility_rules |-> <<
         [rule_id |-> "sui_1", rule_type |-> "age_min", condition |-> ">=",
           value |-> <<"1", "8">>,
           description |-> "Age >= 18"],
         [rule_id |-> "sui_2", rule_type |-> "custom", condition |-> "sc_st_or_female",
           value |-> <<"true">>,
           description |-> "Must be SC/ST or female"]>>,
     required_documents |-> <<"aadhaar", "pan", "caste_certificate", "bank_statement", "income_certificate">>,
     execution_tier |-> 2,
     approval_rate |-> RNorm(55, 100),
     depends_on |-> <<"pm_jan_dhan">>,
     conflicts_with |-> <<>>]

PmFasalBima ==
    [scheme_id |-> "pm_fasal_bima",
     name |-> "Pradhan Mantri Fasal Bima Yojana",
     benefit_amount |-> 200000,
     eligibility_rules |-> <<
         [rule_id |-> "pfb_1", rule_type |-> "occupation", condition |-> "==",
           value |-> <<"farmer">>,
           description |-> "Must be a farmer"]>>,
     required_documents |-> <<"aadhaar", "bank_statement", "income_certificate">>,
     execution_tier |-> 1,
     approval_rate |-> RNorm(80, 100),
     depends_on |-> <<"pm_kisan">>,
     conflicts_with |-> <<>>]

SCHEMES ==
    <<PmKisan, PmUjjwala, Pmay, PmJanDhan, SukanyaSamriddhi, BetiBachao, PmMatruVandana, NsapPension, AtalPension, NationalScholarship, AyushmanBharat, MudraLoan, DisabilityPension, NfsaRation, StandupIndia, PmFasalBima>>

\* SCHEME_MAP = {s.scheme_id: s for s in SCHEMES}: its keys, and its lookup
\* (a later record with the same id replaces an earlier one)
SchemeMapIds(cat) == {cat[i].scheme_id : i \in 1..Len(cat)}

SchemeMapGet(cat, sid) ==
    cat[CHOOSE i \in 1..Len(cat) :
            /\ cat[i].scheme_id = sid
            /\ \A j \in 1..Len(cat) : cat[j].scheme_id = sid => j <= i]

(***************************************************************************)
(* The knowledge graph (knowledge/graph.py, networkx.DiGraph).             *)
(* A node id is <<prefix, name>>: <<"", scheme_id>>, <<"rule_", rule_id>>, *)
(* <<"doc_", doc>>.  nodes and edges are kept in insertion order, which is *)
(* the order predecessors() and successors() iterate in; adding an edge    *)
(* that exists overwrites its relation in place.                           *)
(***************************************************************************)
SchemeNode(sid) == <<"", sid>>
RuleNode(rid)   == <<"rule_", rid>>
DocNode(doc)    == <<"doc_", doc>>

EmptyGraph == [nodes |-> <<>>, edges |-> <<>>]

NodeIds(g) == {g.nodes[i].id : i \in 1..Len(g.nodes)}

HasNode(g, n) == n \in NodeIds(g)

HasEdge(g, u, v) == \E i \in 1..Len(g.edges) : g.edges[i].u = u /\ g.edges[i].v = v

\* DiGraph.get_edge_data(u, v): <<>> (None) or <<relation>>
GetEdgeData(g, u, v) ==
    IF HasEdge(g, u, v)
    THEN <<(g.edges[CHOOSE i \in 1..Len(g.edges) :
                g.edges[i].u = u /\ g.edges[i].v = v]).relation>>
    ELSE <<>>

\* DiGraph.predecessors(n) / successors(n), in iteration order (n a node)
Predecessors(g, n) ==
    LET es == SelectSeq(g.edges, LAMBDA e : e.v = n)
    IN  [i \in 1..Len(es) |-> es[i].u]

Successors(g, n) ==
    LET es == SelectSeq(g.edges, LAMBDA e : e.u = n)
    IN  [i \in 1..Len(es) |-> es[i].v]

(***************************************************************************)
(* _build, as the sequence of add_node / add_edge calls it makes, and the  *)
(* DiGraph those calls leave behind                                        *)
(***************************************************************************)
\* graph.add_node(n, node_type=t)
AddNode(n, t) == [call |-> "add_node", u |-> n, v |-> n, attr |-> t]

\* if not graph.has_node(n): graph.add_node(n, node_type=t)
AddNodeIfAbsent(n, t) == [call |-> "add_node_if_absent", u |-> n, v |-> n, attr |-> t]

\* graph.add_edge(u, v, relation=r)
AddEdge(u, v, r) == [call |-> "add_edge", u |-> u, v |-> v, attr |-> r]

\* for rule in scheme.eligibility_rules: add_node(rule_node); add_edge(scheme, rule_node)
AddRules(sid, rules) ==
    [i \in 1..(2 * Len(rules)) |->
        IF i % 2 = 1
        THEN AddNode(RuleNode(rules[(i + 1) \div 2].rule_id), "rule")
        ELSE AddEdge(SchemeNode(sid), RuleNode(rules[i \div 2].rule_id), "REQUIRES")]

\* for doc in scheme.required_documents: the node unless present, then the edge
AddDocs(sid, docs) ==
    [i \in 1..(2 * Len(docs)) |->
        IF i % 2 = 1
        THEN AddNodeIfAbsent(DocNode(docs[(i + 1) \div 2]), "document")
        ELSE AddEdge(SchemeNode(sid), DocNode(docs[i \div 2]), "NEEDS_DOCUMENT")]

\* for dep_id in scheme.depends_on: add_edge(scheme, dep_id), for a loop
\* without the test of SCHEME_MAP
AddDependenciesUnguarded(sid, deps, known) ==
    [i \in 1..Len(deps) |-> AddEdge(SchemeNode(sid), SchemeNode(deps[i]), "DEPENDS_ON")]

\* for dep_id in scheme.depends_on: if dep_id in SCHEME_MAP: add_edge(scheme, dep_id)
AddDependencies(sid, deps, known) ==
    LET kept == KeepIn(deps, known)
    IN  [i \in 1..Len(kept) |-> AddEdge(SchemeNode(sid), SchemeNode(kept[i]), "DEPENDS_ON")]

\* for conflict_id in scheme.conflicts_with: if conflict_id in SCHEME_MAP: both directions
AddConflicts(sid, cs, known) ==
    LET kept == KeepIn(cs, known)
    IN  [i \in 1..(2 * Len(kept)) |->
            IF i % 2 = 1
            THEN AddEdge(SchemeNode(sid), SchemeNode(kept[(i + 1) \div 2]), "CONFLICTS_WITH")
            ELSE AddEdge(SchemeNode(kept[i \div 2]), SchemeNode(sid), "CONFLICTS_WITH")]

\* One iteration of _build's loop over SCHEMES
BuildScheme(s, known) ==
    <<AddNode(SchemeNode(s.scheme_id), "scheme")>>
        \o AddRules(s.scheme_id, s.eligibility_rules)
        \o AddDocs(s.scheme_id, s.required_documents)
        \o AddDependencies(s.scheme_id, s.depends_on, known)
        \o AddConflicts(s.scheme_id, s.conflicts_with, known)

\* The calls of the whole loop, in program order
RECURSIVE BuildCalls(_, _, _)
BuildCalls(cat, k, known) ==
    IF k > Len(cat) THEN <<>>
    ELSE BuildScheme(cat[k], known) \o BuildCalls(cat, k + 1, known)

\* The members of a set of indices, in increasing order
Ascending(I) == [k \in 1..Cardinality(I) |-> CHOOSE i \in I : Cardinality({j \in I : j <= i}) = k]

\* The nodes a sequence of calls touches, in the order they are first touched:
\* add_edge creates its endpoints, u before v, when they are not there
TouchedNodes(calls) ==
    [i \in 1..(2 * Len(calls)) |->
        IF i % 2 = 1 THEN calls[(i + 1) \div 2].u ELSE calls[i \div 2].v]

\* The attribute a node ends with: the last add_node's; failing that the one
\* given when the guarded add_node created it; none when add_edge created it
NodeType(calls, n) ==
    LET touch == {i \in 1..Len(calls) : calls[i].u = n \/ calls[i].v = n}
        sets  == {i \in touch : calls[i].call = "add_node"}
        first == CHOOSE i \in touch : \A j \in touch : i <= j
        last  == CHOOSE i \in sets : \A j \in sets : j <= i
    IN  IF sets # {} THEN calls[last].attr
        ELSE IF calls[first].call = "add_node_if_absent" THEN calls[first].attr
        ELSE ""

\* The relation an edge ends with: add_edge on an existing edge overwrites it
EdgeRelation(calls, u, v) ==
    LET adds == {i \in 1..Len(calls) :
                    calls[i].call = "add_edge" /\ calls[i].u = u /\ calls[i].v = v}
    IN  calls[CHOOSE i \in adds : \A j \in adds : j <= i].attr

\* The DiGraph after the calls: nodes and edges in insertion order
GraphAfter(calls) ==
    LET touched == TouchedNodes(calls)
        firstN  == Ascending({i \in 1..Len(touched) :
                                 \A j \in 1..(i - 1) : touched[j] # touched[i]})
        firstE  == Ascending({i \in 1..Len(calls) :
                                 /\ calls[i].call = "add_edge"
                                 /\ \A j \in 1..(i - 1) :
                                        ~(/\ calls[j].call = "add_edge"
                                          /\ calls[j].u = calls[i].u
                                          /\ calls[j].v = calls[i].v)})
    IN  [nodes |-> [k \in 1..Len(firstN) |->
                       [id |-> touched[firstN[k]],
                        node_type |-> NodeType(calls, touched[firstN[k]])]],
         edges |-> [k \in 1..Len(firstE) |->
                       [u |-> calls[firstE[k]].u, v |-> calls[firstE[k]].v,
                        relation |-> EdgeRelation(calls, calls[firstE[k]].u,
                                                  calls[firstE[k]].v)]]]

\* SchemeGraph.__init__ / _build
Build(cat) == GraphAfter(BuildCalls(cat, 1, SchemeMapIds(cat)))

\* SchemeGraph.stats
Stats(g) ==
    LET OfType(t) == Len(SelectSeq(g.nodes, LAMBDA n : n.node_type = t))
    IN  [total_nodes |-> Len(g.nodes),
         total_edges |-> Len(g.edges),
         schemes     |-> OfType("scheme"),
         rules       |-> OfType("rule"),
         documents   |-> OfType("document")]

(***************************************************************************)
(* Outcomes                                                                *)
(***************************************************************************)
Ok(v) == [exc |-> "none", value |-> v]

Raise(e) == [exc |-> e]

IsOk(r) == r.exc = "none"

\* The value of r handed to F, or the exception r raised
Then(r, F(_)) == Bind(r, LAMBDA v : IF IsOk(v) THEN F(v.value) ELSE v)

(***************************************************************************)
(* Citizen profiles (models/citizen.py).  A word-valued field is compared  *)
(* with a rule value as the one-token string it is.                        *)
(***************************************************************************)
AsTokens(w) == IF w = "" THEN <<>> ELSE <<w>>

\* citizen.age or 0, for an absent age that counts as a great one
AgeOrGreat(c) == IF c.age = <<>> THEN 200 ELSE c.age[1]

\* citizen.age or 0
AgeOrZero(c) == IF c.age = <<>> THEN 0 ELSE c.age[1]

\* the truth value of citizen.age: None and 0 are both false
AgeTruthy(c) == c.age # <<>> /\ c.age[1] # 0

\* CitizenProfile.num_children / num_daughters
NumChildren(c) ==
    Cardinality({i \in 1..Len(c.family_members) :
                    c.family_members[i].relationship = "child"})

NumDaughters(c) ==
    Cardinality({i \in 1..Len(c.family_members) :
                    /\ c.family_members[i].relationship = "child"
                    /\ c.family_members[i].gender = "female"})

\* The defaults of CitizenProfile's fields
DefaultCitizen ==
    [age |-> <<>>, gender |-> "male", caste_category |-> "general", state |-> "",
     occupation |-> "other", education |-> "none", is_bpl |-> FALSE,
     is_disabled |-> FALSE, is_pregnant |-> FALSE, is_minority |-> FALSE,
     annual_income |-> RInt(0), family_members |-> <<>>, documents |-> <<>>,
     aadhaar_number |-> "", bank_account |-> ""]

(***************************************************************************)
(* SchemeGraph.evaluate_rule                                               *)
(***************************************************************************)
\* _EDU_ORDER.get(x, 0)
EduLadder ==
    <<"none", "primary", "secondary", "higher_secondary", "graduate",
      "post_graduate", "doctorate">>

EduOrderGet(tokens) ==
    IF Len(tokens) = 1 /\ InSeq(tokens[1], EduLadder)
    THEN (CHOOSE i \in 1..Len(EduLadder) : EduLadder[i] = tokens[1]) - 1
    ELSE 0

\* any(m.relationship == "child" and m.age <= int(val) for m in members):
\* int(val) is evaluated when the scan meets a child, not before
RECURSIVE AnyChildAgeMax(_, _)
AnyChildAgeMax(members, val) ==
    IF members = <<>> THEN Ok(FALSE)
    ELSE IF Head(members).relationship # "child" THEN AnyChildAgeMax(Tail(members), val)
    ELSE IF ~ParseInt(val).ok THEN Raise("ValueError")
    ELSE IF Head(members).age <= ParseInt(val).v THEN Ok(TRUE)
    ELSE AnyChildAgeMax(Tail(members), val)

\* graph.py line 135: no branch took the rule
EvaluateFallthroughGrants == Ok(TRUE)

EvaluateFallthrough == Ok(FALSE)

EvaluateCustom(rule, c) ==
    IF rule.condition = "child_age_max"
    THEN AnyChildAgeMax(c.family_members, rule.value)
    ELSE IF rule.condition = "sc_st_or_female"
    THEN Ok(c.caste_category \in {"sc", "st"} \/ c.gender = "female")
    ELSE EvaluateFallthrough

EvaluateRule(rule, c) ==
    LET rt  == rule.rule_type
        val == rule.value
    IN  CASE rt = "age_min" ->
               IF ParseInt(val).ok THEN Ok(AgeOrZero(c) >= ParseInt(val).v)
               ELSE Raise("ValueError")
          [] rt = "age_max" ->
               IF ParseInt(val).ok THEN Ok(AgeOrZero(c) <= ParseInt(val).v)
               ELSE Raise("ValueError")
          [] rt = "income_max" ->
               IF ParseFloat(val).ok THEN Ok(RLeq(c.annual_income, ParseFloat(val).v))
               ELSE Raise("ValueError")
          [] rt = "gender" -> Ok(AsTokens(c.gender) = val)
          [] rt = "caste" -> Ok(AsTokens(c.caste_category) \in Range(SplitStrip(val)))
          [] rt = "state" -> Ok(LowerSeq(AsTokens(c.state)) = LowerSeq(val))
          [] rt = "occupation" -> Ok(AsTokens(c.occupation) \in Range(SplitStrip(val)))
          [] rt = "education_min" ->
               Ok(EduOrderGet(AsTokens(c.education)) >= EduOrderGet(val))
          [] rt = "education_max" ->
               Ok(EduOrderGet(AsTokens(c.education)) <= EduOrderGet(val))
          [] rt = "bpl" -> Ok(c.is_bpl)
          [] rt = "disability" -> Ok(c.is_disabled)
          [] rt = "pregnant" -> Ok(c.is_pregnant)
          [] rt = "has_children" -> Ok(NumChildren(c) > 0)
          [] rt = "has_daughters" -> Ok(NumDaughters(c) > 0)
          [] rt = "minority" -> Ok(c.is_minority)
          [] rt = "custom" -> EvaluateCustom(rule, c)
          [] OTHER -> EvaluateFallthrough

(***************************************************************************)
(* SchemeGraph.find_benefit_chain                                          *)
(***************************************************************************)
MAX_HOPS == 5

\* visited = {scheme_id}
InitialVisitedEmpty(start) == {}

InitialVisited(start) == {start}

\* The inner loop over the predecessors of one frontier node, for a loop
\* that never adds to visited
RECURSIVE ScanPredecessorsRevisiting(_, _, _, _)
ScanPredecessorsRevisiting(g, current, preds, st) ==
    IF preds = <<>> THEN st
    ELSE LET p == Head(preds)
             take == /\ GetEdgeData(g, p, current) = <<"DEPENDS_ON">>
                     /\ p \notin st.visited
         IN  ScanPredecessorsRevisiting(g, current, Tail(preds),
                 IF take
                 THEN [visited    |-> st.visited,
                       dependents |-> Append(st.dependents, p),
                       next       |-> Append(st.next, p)]
                 ELSE st)

\* The inner loop over the predecessors of one frontier node.
\* st = [visited, dependents, next]
RECURSIVE ScanPredecessors(_, _, _, _)
ScanPredecessors(g, current, preds, st) ==
    IF preds = <<>> THEN st
    ELSE LET p == Head(preds)
             take == /\ GetEdgeData(g, p, current) = <<"DEPENDS_ON">>
                     /\ p \notin st.visited
         IN  ScanPredecessors(g, current, Tail(preds),
                 IF take
                 THEN [visited    |-> st.visited \cup {p},
                       dependents |-> Append(st.dependents, p),
                       next       |-> Append(st.next, p)]
                 ELSE st)

\* The loop over the frontier.  predecessors() of a node that is not in the
\* graph raises NetworkXError.
RECURSIVE ScanFrontier(_, _, _)
ScanFrontier(g, frontier, st) ==
    IF frontier = <<>> THEN Ok(st)
    ELSE IF ~HasNode(g, Head(frontier)) THEN Raise("NetworkXError")
    ELSE ScanFrontier(g, Tail(frontier),
             ScanPredecessors(g, Head(frontier), Predecessors(g, Head(frontier)), st))

\* for _ in range(max_hops): ... ; hops counts the iterations left
RECURSIVE HopLoop(_, _, _, _, _)
HopLoop(g, frontier, visited, dependents, hops) ==
    IF hops <= 0 THEN Ok(dependents)
    ELSE LET r == ScanFrontier(g, frontier,
                      [visited |-> visited, dependents |-> dependents, next |-> <<>>])
         IN  IF ~IsOk(r) THEN r
             ELSE IF r.value.next = <<>> THEN Ok(r.value.dependents)
             ELSE HopLoop(g, r.value.next, r.value.visited, r.value.dependents, hops - 1)

\* for _ in range(max_hops + 1), for a walk of one hop more
FindBenefitChainExtraHop(g, start, max_hops) ==
    HopLoop(g, <<start>>, InitialVisited(start), <<>>, max_hops + 1)

FindBenefitChain(g, start, max_hops) ==
    HopLoop(g, <<start>>, InitialVisited(start), <<>>, max_hops)

(***************************************************************************)
(* SchemeGraph.detect_conflicts                                            *)
(***************************************************************************)
\* Python's order on the id strings of the model, smallest first
IdOrder ==
    <<"atal_pension", "ayushman_bharat", "beti_bachao", "disability_pension",
      "mudra_loan", "national_scholarship", "nfsa_ration", "no_such_scheme",
      "nsap_pension", "pm_fasal_bima", "pm_jan_dhan", "pm_kisan",
      "pm_matru_vandana", "pm_ujjwala", "pmay", "s1", "s2", "s3", "s4", "s5",
      "s6", "s7", "standup_india", "sukanya_samriddhi">>

IdPos(w) == CHOOSE i \in 1..Len(IdOrder) : IdOrder[i] = w

\* Scheme nodes compare as their ids do (only they carry CONFLICTS_WITH)
NodeLeq(a, b) == IdPos(a[2]) <= IdPos(b[2])

\* tuple(sorted((sid, neighbor)))
UnsortedPair(a, b) == <<a, b>>

SortedPair(a, b) == IF NodeLeq(a, b) THEN <<a, b>> ELSE <<b, a>>

\* if pair not in checked, for a set that is never consulted
NeverChecked(pair, checked) == TRUE

\* if pair not in checked
NotChecked(pair, checked) == pair \notin checked

\* The inner loop over the successors of sid.  st = [conflicts, checked]
RECURSIVE ScanSuccessors(_, _, _, _, _)
ScanSuccessors(g, sid, succs, scheme_ids, st) ==
    IF succs = <<>> THEN st
    ELSE LET n    == Head(succs)
             pair == SortedPair(sid, n)
             take == /\ GetEdgeData(g, sid, n) = <<"CONFLICTS_WITH">>
                     /\ InSeq(n, scheme_ids)
                     /\ NotChecked(pair, st.checked)
         IN  ScanSuccessors(g, sid, Tail(succs), scheme_ids,
                 IF take
                 THEN [conflicts |-> Append(st.conflicts, pair),
                       checked   |-> st.checked \cup {pair}]
                 ELSE st)

\* The loop over scheme_ids.  successors() of an id that is not a node of
\* the graph raises NetworkXError.
RECURSIVE ScanSchemeIds(_, _, _, _)
ScanSchemeIds(g, rest, scheme_ids, st) ==
    IF rest = <<>> THEN Ok(st.conflicts)
    ELSE IF ~HasNode(g, Head(rest)) THEN Raise("NetworkXError")
    ELSE ScanSchemeIds(g, Tail(rest), scheme_ids,
             ScanSuccessors(g, Head(rest), Successors(g, Head(rest)), scheme_ids, st))

DetectConflicts(g, scheme_ids) ==
    ScanSchemeIds(g, scheme_ids, scheme_ids, [conflicts |-> <<>>, checked |-> {}])

(***************************************************************************)
(* SchemeGraph.discover_schemes.  eligibility_score and                    *)
(* approval_probability are stored in hundredths.                          *)
(***************************************************************************)
\* rule.description or rule.rule_id
RuleLabel(rule) == IF rule.description # "" THEN rule.description ELSE rule.rule_id

\* The loop over a scheme's rules.  st = [matched, failed]
RECURSIVE EvaluateRules(_, _, _)
EvaluateRules(rules, c, st) ==
    IF rules = <<>> THEN Ok(st)
    ELSE Then(EvaluateRule(Head(rules), c),
              LAMBDA holds :
                  EvaluateRules(Tail(rules), c,
                      IF holds
                      THEN [st EXCEPT !.matched = Append(@, RuleLabel(Head(rules)))]
                      ELSE [st EXCEPT !.failed = Append(@, RuleLabel(Head(rules)))]))

\* [SCHEME_MAP[x].name for x in ids if x in SCHEME_MAP]
NamesOf(cat, ids) ==
    LET kept == KeepIn(ids, SchemeMapIds(cat))
    IN  [i \in 1..Len(kept) |-> SchemeMapGet(cat, kept[i]).name]

\* missing = list(scheme.required_documents), for a list that is not filtered
MissingDocumentsUnfiltered(scheme, c) == scheme.required_documents

\* missing = [d for d in scheme.required_documents if d not in citizen_doc_types]
MissingDocuments(scheme, c) ==
    KeepNotIn(scheme.required_documents, Range(c.documents))

\* score = len(matched) / total if total else 0.0, for a default of zero
ScoreOfZeroDefault(nmatched, total) == IF total # 0 THEN RNorm(nmatched, total) ELSE RInt(0)

\* score = len(matched) / total if total else 1.0
ScoreOf(nmatched, total) == IF total # 0 THEN RNorm(nmatched, total) ELSE RInt(1)

\* SchemeMatch(...) of lines 176-187, from the rule labels ev = [matched, failed]
\* and the benefit chain ch, with the rounding ties in up resolved upwards
SchemeMatch(cat, scheme, c, ev, ch, up) ==
    LET score == ScoreOf(Len(ev.matched), Len(scheme.eligibility_rules))
    IN  [scheme_id            |-> scheme.scheme_id,
         eligibility_score    |->
             Round2(score, TieKey("eligibility_score", scheme.scheme_id, 0), up),
         matched_rules        |-> ev.matched,
         failed_rules         |-> ev.failed,
         missing_documents    |-> MissingDocuments(scheme, c),
         estimated_benefit    |-> scheme.benefit_amount,
         approval_probability |->
             Round2(RMul(score, scheme.approval_rate),
                    TieKey("approval_probability", scheme.scheme_id, 0), up),
         is_eligible          |-> Len(ev.failed) = 0,
         rank                 |-> 0,
         conflicts            |-> NamesOf(cat, scheme.conflicts_with),
         unlocks              |-> NamesOf(cat, [i \in 1..Len(ch) |-> ch[i][2]])]

\* The roundings of SchemeMatch that fall on a tie
MatchTies(scheme, ev) ==
    LET score == ScoreOf(Len(ev.matched), Len(scheme.eligibility_rules))
    IN  TieIfHalf(score, TieKey("eligibility_score", scheme.scheme_id, 0))
        \cup TieIfHalf(RMul(score, scheme.approval_rate),
                       TieKey("approval_probability", scheme.scheme_id, 0))

\* The part of the loop body over SCHEMES that can raise: the rule labels and
\* the benefit chain of one scheme
EvaluateScheme(g, scheme, c) ==
    Then(EvaluateRules(scheme.eligibility_rules, c, [matched |-> <<>>, failed |-> <<>>]),
         LAMBDA ev :
             Then(FindBenefitChain(g, SchemeNode(scheme.scheme_id), MAX_HOPS),
                  LAMBDA ch : Ok([scheme |-> scheme, ev |-> ev, ch |-> ch])))

\* The loop over SCHEMES up to the first exception
RECURSIVE EvaluateAll(_, _, _, _)
EvaluateAll(g, rest, c, acc) ==
    IF rest = <<>> THEN Ok(acc)
    ELSE Then(EvaluateScheme(g, Head(rest), c),
              LAMBDA e : EvaluateAll(g, Tail(rest), c, Append(acc, e)))

\* matches, in catalog order, before the sort
MatchAll(cat, c, evs, up) ==
    [k \in 1..Len(evs) |-> SchemeMatch(cat, evs[k].scheme, c, evs[k].ev, evs[k].ch, up)]

DiscoverTies(evs) == UNION {MatchTies(evs[k].scheme, evs[k].ev) : k \in 1..Len(evs)}

\* The sort key (m.is_eligible, m.estimated_benefit * m.approval_probability):
\* a sorts strictly before b under reverse=True
SortProduct(m) == m.estimated_benefit * m.approval_probability

KeyGreaterBenefitOnly(a, b) == SortProduct(a) > SortProduct(b)

KeyGreater(a, b) ==
    \/ a.is_eligible /\ ~b.is_eligible
    \/ a.is_eligible = b.is_eligible /\ SortProduct(a) > SortProduct(b)

\* list.sort(key, reverse=True) for a sort that puts x before its equals
InsertBeforeEqual(sorted, x) ==
    LET notGreater == {i \in 1..Len(sorted) : ~KeyGreater(sorted[i], x)}
        at == IF notGreater = {} THEN Len(sorted) + 1
              ELSE CHOOSE i \in notGreater : \A j \in notGreater : i <= j
    IN  SubSeq(sorted, 1, at - 1) \o <<x>> \o SubSeq(sorted, at, Len(sorted))

\* list.sort(key, reverse=True) is stable: x goes before the first element
\* with a strictly smaller key
InsertDesc(sorted, x) ==
    LET smaller == {i \in 1..Len(sorted) : KeyGreater(x, sorted[i])}
        at == IF smaller = {} THEN Len(sorted) + 1
              ELSE CHOOSE i \in smaller : \A j \in smaller : i <= j
    IN  SubSeq(sorted, 1, at - 1) \o <<x>> \o SubSeq(sorted, at, Len(sorted))

RECURSIVE StableSortDesc(_, _)
StableSortDesc(rest, acc) ==
    IF rest = <<>> THEN acc
    ELSE Bind(InsertDesc(acc, Head(rest)), LAMBDA a : StableSortDesc(Tail(rest), a))

\* for i, m in enumerate(matches): m.rank = i, for ranks counted from 0
AssignRanksFromZero(ms) == [i \in 1..Len(ms) |-> [ms[i] EXCEPT !.rank = i - 1]]

\* for i, m in enumerate(matches): m.rank = i + 1
AssignRanks(ms) == [i \in 1..Len(ms) |-> [ms[i] EXCEPT !.rank = i]]

\* matches.sort(...) and the ranks
RankMatches(ms) == AssignRanks(StableSortDesc(ms, <<>>))

\* An outcome of a call: the ties it met, those it resolved upwards, its result
Outcome(ties, up, result) == [ties |-> ties, tieUp |-> up, result |-> result]

\* discover_schemes: one outcome for every way of resolving the ties it meets
DiscoverSchemes(cat, g, c) ==
    Bind(EvaluateAll(g, cat, c, <<>>),
         LAMBDA r :
             IF ~IsOk(r) THEN {Outcome({}, {}, r)}
             ELSE Bind(DiscoverTies(r.value),
                       LAMBDA T :
                           {Outcome(T, up, Ok(RankMatches(MatchAll(cat, c, r.value, up))))
                               : up \in SUBSET T}))

(***************************************************************************)
(* engine/validation.py: the rule-based scorer.  Probabilities that the    *)
(* code rounds are stored in the unit it rounds to (hundredths).  The      *)
(* risk_contribution of a factor is carried exactly through the steps and  *)
(* rounded where the result is assembled.                                  *)
(***************************************************************************)
Dec(n, d) == RNorm(n, d)

\* The thresholds of the four-tier ladder
Rungs == {Dec(7, 10), Dec(5, 10), Dec(3, 10)}

\* {key} if x lies exactly on a threshold of the ladder
TieIfRung(x, key) == IF x \in Rungs THEN {key} ELSE {}

\* x >= t, where x = t exactly is a tie
AtLeast(x, t, key, up) == RLt(t, x) \/ (x = t /\ key \in up)

\* The four-tier ladder, on an unrounded score
RiskLevel(x, key, up) ==
    IF AtLeast(x, Dec(7, 10), key, up) THEN "critical"
    ELSE IF AtLeast(x, Dec(5, 10), key, up) THEN "high"
    ELSE IF AtLeast(x, Dec(3, 10), key, up) THEN "medium"
    ELSE "low"

\* _check_missing_docs
CheckMissingDocs(c, scheme) == KeepNotIn(scheme.required_documents, Range(c.documents))

RulesOfType(scheme, types) ==
    SelectSeq(scheme.eligibility_rules, LAMBDA r : r.rule_type \in types)

Max2(a, b) == IF a >= b THEN a ELSE b

\* 1. Incomplete documentation: st = [factors, total]
DocRisk(c, scheme, st) ==
    LET missing == CheckMissingDocs(c, scheme)
        risk == RMul(Dec(30, 100),
                     RNorm(Len(missing), Max2(Len(scheme.required_documents), 1)))
    IN  IF missing = <<>> THEN st
        ELSE [factors |-> Append(st.factors,
                  [factor |-> "Incomplete Documentation",
                   severity |-> IF Len(missing) > 2 THEN "high" ELSE "medium",
                   risk |-> risk]),
              total |-> RAdd(st.total, risk)]

\* citizen.annual_income / max_income if max_income else 0
IncomeRatio(c, max_income) ==
    IF max_income[1] # 0 THEN RDiv(c.annual_income, max_income) ELSE RInt(0)

\* 2. Income verification: one income_max rule with limit max_income
IncomeStep(c, max_income, st) ==
    LET ratio == IncomeRatio(c, max_income)
        risk == RDiv(RMul(Dec(20, 100), RMin(RSub(ratio, Dec(85, 100)), Dec(15, 100))),
                     Dec(15, 100))
    IN  IF RLt(Dec(85, 100), ratio)
        THEN [factors |-> Append(st.factors,
                  [factor |-> "Income Near Threshold",
                   severity |-> IF RLt(Dec(95, 100), ratio) THEN "high" ELSE "medium",
                   risk |-> risk]),
              total |-> RAdd(st.total, risk)]
        ELSE st

\* The loop over the income_max rules
RECURSIVE IncomeRisk(_, _, _)
IncomeRisk(c, rules, st) ==
    IF rules = <<>> THEN Ok(st)
    ELSE Bind(ParseFloat(Head(rules).value),
              LAMBDA p : IF ~p.ok THEN Raise("ValueError")
                         ELSE Bind(IncomeStep(c, p.v, st),
                                   LAMBDA st2 : IncomeRisk(c, Tail(rules), st2)))

\* 3. and 4. Aadhaar and bank account presence
AadhaarRisk(c, st) ==
    IF c.aadhaar_number = ""
    THEN [factors |-> Append(st.factors,
              [factor |-> "Missing Aadhaar", severity |-> "critical",
               risk |-> Dec(25, 100)]),
          total |-> RAdd(st.total, Dec(25, 100))]
    ELSE st

BankRisk(c, st) ==
    IF c.bank_account = ""
    THEN [factors |-> Append(st.factors,
              [factor |-> "No Bank Account Linked", severity |-> "high",
               risk |-> Dec(15, 100)]),
          total |-> RAdd(st.total, Dec(15, 100))]
    ELSE st

\* 5. Age boundary: the loop over the age_min / age_max rules
RECURSIVE AgeRisk(_, _, _)
AgeRisk(c, rules, st) ==
    IF rules = <<>> THEN Ok(st)
    ELSE LET p == ParseInt(Head(rules).value)
         IN  IF ~p.ok THEN Raise("ValueError")
             ELSE AgeRisk(c, Tail(rules),
                      IF Abs(c.age[1] - p.v) <= 1
                      THEN [factors |-> Append(st.factors,
                                [factor |-> "Age Boundary Risk", severity |-> "medium",
                                 risk |-> Dec(8, 100)]),
                            total |-> RAdd(st.total, Dec(8, 100))]
                      ELSE st)

\* min(max(x, 0.0), 1.0)
ClampRisk(x) == RMin(RMax(x, RInt(0)), RInt(1))

\* list(dict.fromkeys(recs))
RECURSIVE Dedup(_, _)
Dedup(s, acc) ==
    IF s = <<>> THEN acc
    ELSE Dedup(Tail(s), IF InSeq(Head(s), acc) THEN acc ELSE Append(acc, Head(s)))

\* _generate_recommendations: a recommendation text is <<kind>> or
\* <<"upload", document>>
RECURSIVE RecsFor(_, _, _)
RecsFor(factors, missing, acc) ==
    IF factors = <<>> THEN acc
    ELSE LET name == Head(factors).factor
             more == CASE name = "Incomplete Documentation" ->
                            [i \in 1..Len(missing) |-> <<"upload", missing[i]>>]
                       [] name = "Missing Aadhaar" -> << <<"link_aadhaar">> >>
                       [] name = "No Bank Account Linked" -> << <<"open_jan_dhan">> >>
                       [] name = "Income Near Threshold" -> << <<"match_income">> >>
                       [] name = "Age Boundary Risk" -> << <<"before_cutoff">> >>
                       [] OTHER -> <<>>
         IN  RecsFor(Tail(factors), missing, acc \o more)

GenerateRuleRecommendations(factors, missing) == Dedup(RecsFor(factors, missing, <<>>), <<>>)

\* [p["name"] for p in REJECTION_PATTERNS[:3]]
CommonRejectionPatterns ==
    <<"Incomplete Documentation", "Income Certificate Mismatch",
      "Aadhaar-Bank Name Mismatch">>

\* Lines 142-146: the base risk and the clamp
TotalRisk(scheme, st) ==
    ClampRisk(RAdd(st.total, RMul(RSub(RInt(1), scheme.approval_rate), Dec(3, 10))))

\* Lines 148-167: the ladder and the result, with the risk_contribution of
\* lines 86 and 102 rounded (the literal ones are whole hundredths)
RejectionAnalysis(c, scheme, st, up) ==
    LET total == TotalRisk(scheme, st)
        sid == scheme.scheme_id
    IN  [rejection_probability |-> Round2(total, TieKey("total_risk", sid, 0), up),
         risk_level |-> RiskLevel(total, TieKey("total_risk_level", sid, 0), up),
         risk_factors |->
             [i \in 1..Len(st.factors) |->
                 [factor |-> st.factors[i].factor,
                  severity |-> st.factors[i].severity,
                  risk_contribution |->
                      Round2(st.factors[i].risk, TieKey("risk_contribution", sid, i), up)]],
         recommendations |->
             GenerateRuleRecommendations(st.factors, CheckMissingDocs(c, scheme)),
         common_rejection_patterns |-> CommonRejectionPatterns]

\* The roundings and comparisons of RejectionAnalysis that fall on a tie
RuleTies(scheme, st) ==
    LET total == TotalRisk(scheme, st)
        sid == scheme.scheme_id
    IN  UNION {TieIfHalf(st.factors[i].risk, TieKey("risk_contribution", sid, i))
                  : i \in 1..Len(st.factors)}
        \cup TieIfHalf(total, TieKey("total_risk", sid, 0))
        \cup TieIfRung(total, TieKey("total_risk_level", sid, 0))

\* validation.predict_rejection(citizen, scheme) up to line 146: the factors
\* and the total risk st = [factors, total], or the exception of a rule value
RiskTotals(c, scheme) ==
    Bind(DocRisk(c, scheme, [factors |-> <<>>, total |-> RInt(0)]),
         LAMBDA s1 :
             Then(IF RLt(RInt(0), c.annual_income)
                  THEN IncomeRisk(c, RulesOfType(scheme, {"income_max"}), s1)
                  ELSE Ok(s1),
                  LAMBDA s2 :
                      Bind(BankRisk(c, AadhaarRisk(c, s2)),
                           LAMBDA s4 :
                               IF AgeTruthy(c)
                               THEN AgeRisk(c, RulesOfType(scheme,
                                                {"age_min", "age_max"}), s4)
                               ELSE Ok(s4))))

(***************************************************************************)
(* engine/rejection_model.py: the feature-weighted scorer                  *)
(***************************************************************************)
\* income_ratio: the first income_max rule decides (break)
IncomeFeature(c, scheme) ==
    LET rules == RulesOfType(scheme, {"income_max"})
    IN  IF rules = <<>> THEN Ok(RInt(0))
        ELSE IF ~ParseFloat(rules[1].value).ok THEN Raise("ValueError")
        ELSE Ok(IncomeRatio(c, ParseFloat(rules[1].value).v))

\* age_risk: every age rule within 2 of the age overwrites it
RECURSIVE AgeFeature(_, _, _)
AgeFeature(c, rules, acc) ==
    IF rules = <<>> THEN Ok(acc)
    ELSE LET p == ParseInt(Head(rules).value)
             diff == Abs(c.age[1] - p.v)
         IN  IF ~p.ok THEN Raise("ValueError")
             ELSE AgeFeature(c, Tail(rules),
                      IF diff <= 2 THEN RSub(RInt(1), RMul(RInt(diff), Dec(3, 10)))
                      ELSE acc)

\* _encode_features
EncodeFeatures(c, scheme) ==
    LET total_docs == Len(scheme.required_documents)
        missing == Len(CheckMissingDocs(c, scheme))
        doc_completeness == IF total_docs # 0
                            THEN RSub(RInt(1), RNorm(missing, total_docs))
                            ELSE RInt(1)
    IN  Then(IncomeFeature(c, scheme),
             LAMBDA inc :
                 Then(IF AgeTruthy(c)
                      THEN AgeFeature(c, RulesOfType(scheme, {"age_min", "age_max"}),
                                      RInt(0))
                      ELSE Ok(RInt(0)),
                      LAMBDA age :
                          Ok(<<doc_completeness,
                               IF c.aadhaar_number # "" THEN RInt(1) ELSE RInt(0),
                               IF c.bank_account # "" THEN RInt(1) ELSE RInt(0),
                               inc,
                               age,
                               scheme.approval_rate,
                               RNorm(Len(c.family_members), 10)>>)))

FeatureWeights ==
    <<Dec(30, 100), Dec(15, 100), Dec(10, 100), Dec(15, 100), Dec(10, 100),
      Dec(15, 100), Dec(5, 100)>>

\* sum(f * w for f, w in zip(features, weights))
RECURSIVE Dot(_, _, _)
Dot(f, w, i) == IF i > Len(f) THEN RInt(0) ELSE RAdd(RMul(f[i], w[i]), Dot(f, w, i + 1))

\* random.uniform(-0.06, 0.06), for a noise twice as wide
NoiseBoundWide == Dec(6, 100)

\* random.uniform(-0.03, 0.03): the bounds of the noise
NoiseBound == Dec(3, 100)

\* max(0.0, min(1.0, x))
ClampProbNone(x) == x

ClampProb(x) == RMax(RInt(0), RMin(RInt(1), x))

\* round(max(0.0, min(1.0, base + noise)), 3), in thousandths, for every
\* noise random.uniform can return
NoisyRange(base) ==
    LET lo == RoundTo(ClampProb(RSub(base, NoiseBound)), 1000, FALSE)
        hi == RoundTo(ClampProb(RAdd(base, NoiseBound)), 1000, TRUE)
    IN  lo..hi

\* predict_rejection_probability: the values it can return, or the exception
\* of the encoding
MLOutcomes(c, scheme) ==
    Bind(EncodeFeatures(c, scheme),
         LAMBDA f :
             IF ~IsOk(f) THEN {f}
             ELSE Bind(RSub(RInt(1), Dot(f.value, FeatureWeights, 1)),
                       LAMBDA base : {Ok(b) : b \in NoisyRange(base)}))

\* validation.predict_rejection(citizen, scheme): one outcome for every way
\* of resolving the ties it meets
RuleBasedAnalyses(c, scheme) ==
    Bind(RiskTotals(c, scheme),
         LAMBDA r :
             IF ~IsOk(r) THEN {Outcome({}, {}, r)}
             ELSE Bind(RuleTies(scheme, r.value),
                       LAMBDA T :
                           {Outcome(T, up, Ok(RejectionAnalysis(c, scheme, r.value, up)))
                               : up \in SUBSET T}))

(***************************************************************************)
(* agents/adversarial.py                                                   *)
(***************************************************************************)
\* analysis.rejection_probability * 0.6 + ml_prob * 0.4
Combine(rule_prob, ml_prob) ==
    RAdd(RMul(Dec(rule_prob, 100), Dec(6, 10)), RMul(Dec(ml_prob, 1000), Dec(4, 10)))

\* Lines 40-51: the ladder is applied to the unrounded blend
BlendAnalysis(analysis, ml_prob, scheme_id, up) ==
    LET combined == Combine(analysis.rejection_probability, ml_prob)
    IN  [analysis EXCEPT
            !.rejection_probability =
                Round2(combined, TieKey("combined", scheme_id, 0), up),
            !.risk_level =
                RiskLevel(combined, TieKey("combined_level", scheme_id, 0), up)]

BlendTies(analysis, ml_prob, scheme_id) ==
    LET combined == Combine(analysis.rejection_probability, ml_prob)
    IN  TieIfHalf(combined, TieKey("combined", scheme_id, 0))
        \cup TieIfRung(combined, TieKey("combined_level", scheme_id, 0))

\* Lines 36-53 for one rule-based analysis and one value or exception m of
\* the feature-weighted scorer
BlendOutcomes(a, m, scheme_id, ties, up) ==
    IF ~IsOk(m) THEN {Outcome({}, {}, m)}
    ELSE Bind(BlendTies(a, m.value, scheme_id),
              LAMBDA T :
                  {Outcome(ties \cup T, up \cup up2,
                           Ok(<<BlendAnalysis(a, m.value, scheme_id, up2)>>))
                      : up2 \in SUBSET T})

\* Lines 33-53 once the rule-based factors st are known
AnalysisOutcomes(c, scheme, st, ml) ==
    Bind(RuleTies(scheme, st),
         LAMBDA T :
             UNION {Bind(RejectionAnalysis(c, scheme, st, up),
                         LAMBDA a :
                             UNION {BlendOutcomes(a, m, scheme.scheme_id, T, up)
                                       : m \in ml})
                       : up \in SUBSET T})

\* AdversarialAgent.predict_rejection: the possible outcomes.  An unknown
\* scheme id gives None, modelled as the value <<>>; an analysis is <<a>>.
PredictRejection(cat, c, scheme_id) ==
    IF scheme_id \notin SchemeMapIds(cat) THEN {Outcome({}, {}, Ok(<<>>))}
    ELSE Bind(SchemeMapGet(cat, scheme_id),
              LAMBDA scheme :
                  Bind(RiskTotals(c, scheme),
                       LAMBDA r :
                           IF ~IsOk(r) THEN {Outcome({}, {}, r)}
                           ELSE AnalysisOutcomes(c, scheme, r.value,
                                                 MLOutcomes(c, scheme))))

\* updated_data = citizen.model_dump(); updated_data.update(corrections);
\* CitizenProfile(**updated_data)
Updated(c, corrections) ==
    [f \in DOMAIN c |-> IF f \in DOMAIN corrections THEN corrections[f] ELSE c[f]]

\* The caller's profile after update_prediction, had the corrections been
\* written to the profile itself
ProfileUpdatedInPlace(c, corrections) == Updated(c, corrections)

\* The caller's profile after update_prediction: model_dump() builds a new
\* dict, the corrections go to that dict and the new profile is built from it
ProfileAfterUpdate(c, corrections) == c

\* AdversarialAgent.update_prediction: the possible outcomes
UpdatePrediction(cat, c, scheme_id, corrections) ==
    PredictRejection(cat, Updated(c, corrections), scheme_id)

\* AdversarialAgent.generate_recommendations, for a suggestion of assisted
\* filing from rejection_probability >= 0.5 on
GenerateRecommendationsFromHalf(analysis) ==
    LET recs == analysis.recommendations
        r1 == IF analysis.risk_level \in {"high", "critical"}
              THEN << <<"high_risk_banner">> >> \o recs ELSE recs
    IN  IF analysis.rejection_probability >= 50
        THEN Append(r1, <<"apply_through_csc">>) ELSE r1

\* AdversarialAgent.generate_recommendations
GenerateRecommendations(analysis) ==
    LET recs == analysis.recommendations
        r1 == IF analysis.risk_level \in {"high", "critical"}
              THEN << <<"high_risk_banner">> >> \o recs ELSE recs
    IN  IF analysis.rejection_probability > 50
        THEN Append(r1, <<"apply_through_csc">>) ELSE r1

(***************************************************************************)
(* agents/eligibility.py                                                   *)
(***************************************************************************)
\* EligibilityAgent.verify_eligibility: None is <<>>, a match is <<m>>
FirstWithId(matches, scheme_id) ==
    LET hits == SelectSeq(matches, LAMBDA m : m.scheme_id = scheme_id)
    IN  IF hits = <<>> THEN <<>> ELSE <<hits[1]>>

VerifyEligibility(cat, g, c, scheme_id) ==
    IF scheme_id \notin SchemeMapIds(cat) THEN {Outcome({}, {}, Ok(<<>>))}
    ELSE {IF ~IsOk(d.result) THEN d
          ELSE [d EXCEPT !.result = Ok(FirstWithId(d.result.value, scheme_id))]
             : d \in DiscoverSchemes(cat, g, c)}

\* EligibilityAgent.find_benefit_chains: the names of the dependents
FindBenefitChains(cat, g, scheme_id) ==
    LET ch == FindBenefitChain(g, SchemeNode(scheme_id), MAX_HOPS)
    IN  IF ~IsOk(ch) THEN ch
        ELSE Ok(NamesOf(cat, [i \in 1..Len(ch.value) |-> ch.value[i][2]]))

(***************************************************************************)
(* Bounds and input sets                                                   *)
(***************************************************************************)
MaxListLen == 3       \* longest scheme_ids list handed to detect_conflicts
MaxHopsArg == 2       \* largest explicit max_hops (the default is MAX_HOPS)
MaxBatch   == 2       \* longest scheme_ids list handed to batch_predict

UnknownId == "no_such_scheme"

CatalogIds == SchemeMapIds(catalog)

\* Ids a caller may ask about: the catalog's and one that is not in it
AskIds == CatalogIds \cup {UnknownId}

\* Node names a caller may pass as a scheme id: also the name of a document node
AskNodes == {SchemeNode(i) : i \in AskIds} \cup {DocNode("aadhaar")}

\* The names detect_conflicts is asked about: the conflicting pair of the
\* catalog, schemes with and without dependencies, and names that are no scheme
ConflictAskNodes ==
    {SchemeNode("sukanya_samriddhi"), SchemeNode("beti_bachao"), SchemeNode("pm_kisan"),
     SchemeNode("pmay"), SchemeNode(UnknownId), DocNode("aadhaar")}

HopArgs == {-1} \cup (0..MaxHopsArg)

Daughter(a) == [relationship |-> "child", age |-> a, gender |-> "female"]

Spouse == [relationship |-> "spouse", age |-> 35, gender |-> "male"]

\* Profiles that exercise the catalog's rules
DiscoverCitizens ==
    {[DefaultCitizen EXCEPT !.age = a, !.gender = g, !.occupation = o, !.is_bpl = b,
                            !.annual_income = RInt(inc), !.family_members = fam,
                            !.caste_category = cc, !.education = ed] :
        a \in {<<>>, <<17>>, <<30>>, <<65>>}, g \in {"male", "female"},
        o \in {"farmer", "other"}, b \in BOOLEAN, inc \in {170000, 550000},
        fam \in {<<>>, <<Spouse, Daughter(5)>>},
        cc \in {"general", "sc"}, ed \in {"none", "graduate"}}
    \cup
    {[DefaultCitizen EXCEPT !.annual_income = RInt(550000), !.occupation = "farmer"],
     [DefaultCitizen EXCEPT !.annual_income = RInt(170000), !.age = <<30>>,
                            !.documents = <<"aadhaar", "bank_statement">>],
     [DefaultCitizen EXCEPT !.age = <<30>>, !.gender = "female", !.is_pregnant = TRUE,
                            !.is_disabled = TRUE, !.is_bpl = TRUE,
                            !.documents = <<"aadhaar", "bpl_card">>]}

\* Profiles that exercise the scorers
RiskCitizens ==
    {[DefaultCitizen EXCEPT !.documents = d, !.aadhaar_number = aad, !.bank_account = bank,
                            !.annual_income = RInt(inc), !.age = a,
                            !.family_members = fam] :
        d \in {<<>>, <<"aadhaar", "bank_statement", "income_certificate">>},
        aad \in {"", "123412341234"}, bank \in {"", "00112233"},
        inc \in {0, 450000, 5000000}, a \in {<<>>, <<18>>},
        fam \in {<<>>, <<Spouse, Daughter(5), Daughter(7)>>}}

\* EligibilityRule(rule_id=id, rule_type=rt, condition=cond, value=val)
Rule(id, rt, cond, val) ==
    [rule_id |-> id, rule_type |-> rt, condition |-> cond, value |-> val,
     description |-> ""]

\* The kinds of rule that compare a number
NumericKinds == {"age_min", "age_max", "income_max"}

CatalogRules == UNION {Range(catalog[i].eligibility_rules) : i \in 1..Len(catalog)}

\* Rules whose limit is 0, negative or not whole: the values are "0", "-1"
\* and "250.5"
EdgeRules ==
    {Rule("age_min_0", "age_min", ">=", <<"0">>),
     Rule("age_min_neg", "age_min", ">=", <<"-", "1">>),
     Rule("age_max_0", "age_max", "<=", <<"0">>),
     Rule("age_max_neg", "age_max", "<=", <<"-", "1">>),
     Rule("income_max_0", "income_max", "<=", <<"0">>),
     Rule("income_max_250_5", "income_max", "<=", <<"2", "5", "0", ".", "5">>)}

\* The rules evaluate_rule is asked about on its own
NumericRules == {r \in CatalogRules : r.rule_type \in NumericKinds} \cup EdgeRules

\* Profiles around the limits of these rules
NumericCitizens ==
    {[DefaultCitizen EXCEPT !.age = a, !.annual_income = inc] :
        a \in {<<>>, <<-1>>, <<0>>, <<1>>, <<17>>, <<18>>, <<19>>, <<40>>, <<41>>, <<80>>},
        inc \in {RInt(-1), RInt(0), RNorm(501, 2), RInt(251), RInt(250000), RInt(250001)}}

\* The corrections a citizen applies: documents obtained, an income
\* restated, the identity and bank numbers filled in
Corrections ==
    {[documents |-> <<"aadhaar", "bank_statement", "income_certificate">>],
     [annual_income |-> RInt(0)],
     [aadhaar_number |-> "123412341234", bank_account |-> "00112233"]}

\* The profiles update_prediction corrects, and those whose analyses
\* generate_recommendations is given
UpdateCitizens == {c \in RiskCitizens : c.age = <<>> /\ c.family_members = <<>>}

\* The places whose floating-point ties depend on the citizen and the scheme
\* alone: those of the rule-based scorer
RuleSites == {"total_risk", "total_risk_level", "risk_contribution"}

\* Two runs on the same inputs compute the same floats wherever the noise
\* does not enter, and so resolve the ties there the same way
SameFloats(a, b) ==
    {k \in a.tieUp : k[1] \in RuleSites} = {k \in b.tieUp : k[1] \in RuleSites}

\* The profiles predict_rejection is run twice on
TwiceCitizens ==
    {c \in UpdateCitizens : c.annual_income # RInt(450000) /\ c.bank_account = ""}

\* The ids batch_predict is asked about
BatchIds == {"pm_kisan", "pm_jan_dhan", UnknownId}

BatchCitizen ==
    [DefaultCitizen EXCEPT !.annual_income = RInt(5000000), !.aadhaar_number = "123412341234"]

(***************************************************************************)
(* AdversarialAgent.batch_predict: the possible outcomes.  The result dict *)
(* is a function from its keys; a later analysis of the same id replaces   *)
(* an earlier one.                                                         *)
(***************************************************************************)
\* if result: results[sid] = result, for a result kept regardless
BatchPutAlways(results, sid, result) ==
    IF sid \in DOMAIN results THEN results
    ELSE (sid :> (IF result = <<>> THEN <<>> ELSE result[1])) @@ results

\* if result: results[sid] = result.  results holds the entries of the ids
\* that follow sid in the list, which take precedence over this one
BatchPut(results, sid, result) ==
    IF result = <<>> \/ sid \in DOMAIN results THEN results
    ELSE (sid :> result[1]) @@ results

\* Two calls of one batch resolve a tie they both meet the same way
Agree(a, b) == a.tieUp \cap b.ties = b.tieUp \cap a.ties

\* The outcome of the loop from the outcome a of its first call and the
\* outcome rest of the calls that follow
BatchJoin(a, rest, sid) ==
    IF ~IsOk(a.result) THEN a
    ELSE IF ~IsOk(rest.result) THEN rest
    ELSE Outcome(a.ties \cup rest.ties, a.tieUp \cup rest.tieUp,
                 Ok(BatchPut(rest.result.value, sid, a.result.value)))

RECURSIVE BatchPredict(_, _, _)
BatchPredict(cat, c, scheme_ids) ==
    IF scheme_ids = <<>> THEN {Outcome({}, {}, Ok(<<>>))}
    ELSE Bind(BatchPredict(cat, c, Tail(scheme_ids)),
              LAMBDA rests :
                  UNION {{BatchJoin(a, rest, Head(scheme_ids))
                             : rest \in {r \in rests : Agree(a, r)}}
                            : a \in PredictRejection(cat, c, Head(scheme_ids))})

(***************************************************************************)
(* The system over the catalog of the source                               *)
(***************************************************************************)
Init ==
    /\ catalog = SCHEMES
    /\ graph = Build(SCHEMES)
    /\ tieUp = {}
    /\ op = "idle"
    /\ args = <<>>
    /\ ret = ("idle" :> Ok(<<>>))
    /\ profile = <<>>
    /\ citizens = <<>>
    /\ applications = <<>>
    /\ pipelines = <<>>

\* The caller's profile after a call that assigns to none of its fields
Untouched(a) == IF "citizen" \in DOMAIN a THEN <<a.citizen>> ELSE <<>>

\* What a call that only reads leaves behind
Frame ==
    /\ UNCHANGED <<catalog, graph, citizens, applications, pipelines>>
    /\ profile' = Untouched(args')

\* The operation name returns the outcome o
Returns(name, o) == op' = name /\ ret' = (name :> o.result) /\ tieUp' = o.tieUp

\* The operation name, which meets no floating-point tie, returns r
ReturnsExact(name, r) == Returns(name, Outcome({}, {}, r))

CallDiscoverSchemes ==
    /\ op = "idle"
    /\ \E c \in DiscoverCitizens :
        \E o \in DiscoverSchemes(catalog, graph, c) :
            /\ args' = [citizen |-> c]
            /\ Returns("discover_schemes", o)
            /\ Frame

CallVerifyEligibility ==
    /\ op = "idle"
    /\ \E c \in {BatchCitizen}, sid \in AskIds :
        \E o \in VerifyEligibility(catalog, graph, c, sid) :
            /\ args' = [citizen |-> c, scheme_id |-> sid]
            /\ Returns("verify_eligibility", o)
            /\ Frame

CallFindBenefitChain ==
    /\ op = "idle"
    /\ \E start \in AskNodes, h \in HopArgs :
        /\ args' = [scheme_id |-> start, max_hops |-> h]
        /\ ReturnsExact("find_benefit_chain", FindBenefitChain(graph, start, h))
        /\ Frame

\* find_benefit_chain(scheme_id): max_hops takes its default
CallFindBenefitChainDefault ==
    /\ op = "idle"
    /\ \E start \in AskNodes :
        /\ args' = [scheme_id |-> start, max_hops |-> MAX_HOPS]
        /\ ReturnsExact("find_benefit_chain", FindBenefitChain(graph, start, MAX_HOPS))
        /\ Frame

\* EligibilityAgent.find_benefit_chains(scheme_id)
CallFindBenefitChains ==
    /\ op = "idle"
    /\ \E sid \in AskIds :
        /\ args' = [scheme_id |-> sid]
        /\ ReturnsExact("find_benefit_chains", FindBenefitChains(catalog, graph, sid))
        /\ Frame

\* SchemeGraph.evaluate_rule(rule, citizen)
CallEvaluateRule ==
    /\ op = "idle"
    /\ \E rule \in NumericRules, c \in NumericCitizens :
        /\ args' = [rule |-> rule, citizen |-> c]
        /\ ReturnsExact("evaluate_rule", EvaluateRule(rule, c))
        /\ Frame

CallDetectConflicts ==
    /\ op = "idle"
    /\ \E ids \in SeqsUpTo(ConflictAskNodes, MaxListLen) :
        /\ args' = [scheme_ids |-> ids]
        /\ ReturnsExact("detect_conflicts", DetectConflicts(graph, ids))
        /\ Frame

CallPredictRejection ==
    /\ op = "idle"
    /\ \E c \in RiskCitizens, sid \in AskIds :
        \E r \in PredictRejection(catalog, c, sid) :
            /\ args' = [citizen |-> c, scheme_id |-> sid]
            /\ Returns("predict_rejection", r)
            /\ Frame

CallBatchPredict ==
    /\ op = "idle"
    /\ \E ids \in SeqsUpTo(BatchIds, MaxBatch) :
        \E r \in BatchPredict(catalog, BatchCitizen, ids) :
            /\ args' = [citizen |-> BatchCitizen, scheme_ids |-> ids]
            /\ Returns("batch_predict", r)
            /\ Frame

CallUpdatePrediction ==
    /\ op = "idle"
    /\ \E c \in {u \in UpdateCitizens : u.documents = <<>>}, sid \in BatchIds,
          corrections \in Corrections :
        \E r \in UpdatePrediction(catalog, c, sid, corrections) :
            /\ args' = [citizen |-> c, scheme_id |-> sid, corrections |-> corrections]
            /\ Returns("update_prediction", r)
            /\ UNCHANGED <<catalog, graph, citizens, applications, pipelines>>
            /\ profile' = <<ProfileAfterUpdate(c, corrections)>>

\* generate_recommendations on an analysis of predict_rejection.  The value
\* holds the list returned and the analysis as the call left it: recs is
\* list(analysis.recommendations), a new list, and nothing is assigned to
\* the analysis
CallGenerateRecommendations ==
    /\ op = "idle"
    /\ \E c \in UpdateCitizens, sid \in BatchIds \cap CatalogIds :
        \E r \in PredictRejection(catalog, c, sid) :
            /\ IsOk(r.result)
            /\ args' = [analysis |-> r.result.value[1]]
            /\ Returns("generate_recommendations",
                       [r EXCEPT !.result =
                           Ok([recs |-> GenerateRecommendations(r.result.value[1]),
                               analysis |-> r.result.value[1]])])
            /\ Frame

\* Two runs of predict_rejection on the same citizen and scheme: the noise
\* of each run is its own.  The value holds the results of both runs
CallPredictRejectionTwice ==
    /\ op = "idle"
    /\ \E c \in TwiceCitizens, sid \in BatchIds :
        LET runs == PredictRejection(catalog, c, sid)
        IN  \E a \in runs :
                \E b \in {r \in runs : SameFloats(a, r)} :
                    /\ args' = [citizen |-> c, scheme_id |-> sid]
                    /\ Returns("predict_rejection twice",
                               Outcome(a.ties \cup b.ties, a.tieUp \cup b.tieUp,
                                       Ok(<<a.result, b.result>>)))
                    /\ Frame

\* Two runs of discover_schemes on the same citizen: the same floats, and so
\* the same ties resolved the same way
CallDiscoverSchemesTwice ==
    /\ op = "idle"
    /\ \E c \in {BatchCitizen, DefaultCitizen} :
        LET runs == DiscoverSchemes(catalog, graph, c)
        IN  \E a \in runs :
                \E b \in {r \in runs : Agree(a, r)} :
                    /\ args' = [citizen |-> c]
                    /\ Returns("discover_schemes twice",
                               Outcome(a.ties, a.tieUp, Ok(<<a.result, b.result>>)))
                    /\ Frame

\* Two runs of find_benefit_chain, and of detect_conflicts, on the same
\* arguments
CallLookupsTwice ==
    /\ op = "idle"
    /\ \/ \E start \in AskNodes, h \in HopArgs :
              /\ args' = [scheme_id |-> start, max_hops |-> h]
              /\ ReturnsExact("find_benefit_chain twice",
                              Ok(<<FindBenefitChain(graph, start, h),
                                   FindBenefitChain(graph, start, h)>>))
       \/ \E ids \in SeqsUpTo(ConflictAskNodes, 2) :
              /\ args' = [scheme_ids |-> ids]
              /\ ReturnsExact("detect_conflicts twice",
                              Ok(<<DetectConflicts(graph, ids),
                                   DetectConflicts(graph, ids)>>))
    /\ Frame

CallStats ==
    /\ op = "idle"
    /\ args' = <<>>
    /\ ReturnsExact("stats", Ok(Stats(graph)))
    /\ Frame

\* The caller takes the result of a call that has ended; the service waits
\* for the next request
Return ==
    /\ op \notin {"idle", "find_benefit_chain walking"}
    /\ args' = <<>>
    /\ ReturnsExact("idle", Ok(<<>>))
    /\ Frame

Next ==
    \/ CallStats
    \/ CallGenerateRecommendations
    \/ CallPredictRejectionTwice
    \/ CallDiscoverSchemesTwice
    \/ CallLookupsTwice
    \/ CallDiscoverSchemes
    \/ CallVerifyEligibility
    \/ CallFindBenefitChain
    \/ CallFindBenefitChainDefault
    \/ CallFindBenefitChains
    \/ CallEvaluateRule
    \/ CallDetectConflicts
    \/ CallUpdatePrediction
    \/ CallBatchPredict
    \/ CallPredictRejection
    \/ Return

Spec == Init /\ [][Next]_vars

(***************************************************************************)
(* The system over other catalogs: schemes without rules and documents     *)
(* that declare dependencies and conflicts, also on ids no scheme has.     *)
(* Scheme ids are unique within a catalog.                                 *)
(***************************************************************************)
GenIds == <<"s1", "s2", "s3">>

\* The number of declared references in an enumerated catalog
MaxRefs == 2

\* The length of the lists of distinct names detect_conflicts is asked about here
MaxPick == 2

Reverse(s) == [i \in 1..Len(s) |-> s[Len(s) + 1 - i]]

\* One entry of a depends_on or conflicts_with list
GenRef ==
    [owner : Range(GenIds), field : {"depends_on", "conflicts_with"},
     target : Range(GenIds) \cup {UnknownId}]

Ref(o, f, t) == [owner |-> o, field |-> f, target |-> t]

\* The list the references refs give the field of owner, in their order
RefsOf(refs, owner, field) ==
    LET mine == SelectSeq(refs, LAMBDA r : r.owner = owner /\ r.field = field)
    IN  [i \in 1..Len(mine) |-> mine[i].target]

\* Scheme(scheme_id=id, name=id, ...) with the defaults of the other fields
GenScheme(id, refs) ==
    [scheme_id |-> id,
     name |-> id,
     benefit_amount |-> 0,
     eligibility_rules |-> <<>>,
     required_documents |-> <<>>,
     execution_tier |-> 2,
     approval_rate |-> RNorm(7, 10),
     depends_on |-> RefsOf(refs, id, "depends_on"),
     conflicts_with |-> RefsOf(refs, id, "conflicts_with")]

GenCatalog(order, refs) == [i \in 1..Len(order) |-> GenScheme(order[i], refs)]

\* Every catalog of the three schemes, in ascending and in descending order
\* of their ids, with at most MaxRefs references
SmallCatalogs ==
    {GenCatalog(order, refs) :
        order \in {GenIds, Reverse(GenIds)}, refs \in SeqsUpTo(GenRef, MaxRefs)}

\* s1 <- s2 <- s3 <- s1
CycleCatalog ==
    GenCatalog(GenIds, <<Ref("s2", "depends_on", "s1"), Ref("s3", "depends_on", "s2"),
                         Ref("s1", "depends_on", "s3")>>)

\* s4 depends on s2 and s3, which both depend on s1
DiamondCatalog ==
    GenCatalog(<<"s1", "s2", "s3", "s4">>,
               <<Ref("s2", "depends_on", "s1"), Ref("s3", "depends_on", "s1"),
                 Ref("s4", "depends_on", "s2"), Ref("s4", "depends_on", "s3")>>)

\* s7 depends on s6, ..., s2 depends on s1: six edges from s7 to s1
ChainCatalog ==
    GenCatalog(<<"s1", "s2", "s3", "s4", "s5", "s6", "s7">>,
               <<Ref("s2", "depends_on", "s1"), Ref("s3", "depends_on", "s2"),
                 Ref("s4", "depends_on", "s3"), Ref("s5", "depends_on", "s4"),
                 Ref("s6", "depends_on", "s5"), Ref("s7", "depends_on", "s6")>>)

\* s1, s2 and s3 conflict pairwise; s3 also depends on s1 and on itself
TriangleCatalog ==
    GenCatalog(GenIds, <<Ref("s1", "conflicts_with", "s2"), Ref("s2", "conflicts_with", "s3"),
                         Ref("s3", "conflicts_with", "s1"), Ref("s3", "depends_on", "s1"),
                         Ref("s3", "depends_on", "s3")>>)

\* s1 declares a conflict with s2, and each of the two depends on the other
OverwriteCatalogs ==
    {GenCatalog(order, <<Ref("s1", "conflicts_with", "s2"), Ref("s1", "depends_on", "s2"),
                         Ref("s2", "depends_on", "s1")>>) :
        order \in {GenIds, Reverse(GenIds)}}

GenCatalogs ==
    SmallCatalogs \cup OverwriteCatalogs
    \cup {CycleCatalog, DiamondCatalog, ChainCatalog, TriangleCatalog}

\* The names detect_conflicts is asked about here
GenAskNodes == {SchemeNode(i) : i \in Range(GenIds) \cup {UnknownId}}

InitGen ==
    /\ catalog \in GenCatalogs
    /\ graph = Build(catalog)
    /\ tieUp = {}
    /\ op = "idle"
    /\ args = <<>>
    /\ ret = ("idle" :> Ok(<<>>))
    /\ profile = <<>>
    /\ citizens = <<>>
    /\ applications = <<>>
    /\ pipelines = <<>>

\* The lists detect_conflicts is asked about here: the short ones of
\* distinct names, a name twice, and the three schemes in both orders
GenLists ==
    {ids \in SeqsUpTo(GenAskNodes, MaxPick) : NoDup(ids)}
    \cup {<<n, n>> : n \in GenAskNodes}
    \cup {[i \in 1..Len(o) |-> SchemeNode(o[i])] : o \in {GenIds, Reverse(GenIds)}}

GenDetectConflicts ==
    /\ op = "idle"
    /\ \E ids \in GenLists :
        /\ args' = [scheme_ids |-> ids]
        /\ ReturnsExact("detect_conflicts", DetectConflicts(graph, ids))
        /\ Frame

\* discover_schemes for the profile with every default
GenDiscoverSchemes ==
    /\ op = "idle"
    /\ \E c \in {DefaultCitizen} :
        \E o \in DiscoverSchemes(catalog, graph, c) :
            /\ args' = [citizen |-> c]
            /\ Returns("discover_schemes", o)
            /\ Frame

NextGen ==
    \/ CallFindBenefitChain
    \/ CallFindBenefitChainDefault
    \/ GenDetectConflicts
    \/ GenDiscoverSchemes
    \/ Return

SpecGen == InitGen /\ [][NextGen]_vars

(***************************************************************************)
(* find_benefit_chain one iteration of its hop loop at a time.  While the  *)
(* walk runs, op is "find_benefit_chain walking" and the outcome holds the *)
(* locals of the loop: frontier, visited, dependents and the number of     *)
(* iterations done, hops.  The walk ends in "find_benefit_chain walked"    *)
(* with the locals it ended with, or with the exception it raised.         *)
(***************************************************************************)
\* Catalogs for the walk: the shapes, and every catalog of the three schemes
\* with at most MaxRefs dependencies, on themselves and on unknown ids too
WalkCatalogs ==
    {CycleCatalog, DiamondCatalog, ChainCatalog, TriangleCatalog}
    \cup OverwriteCatalogs
    \cup {GenCatalog(GenIds, refs) :
             refs \in SeqsUpTo({r \in GenRef : r.field = "depends_on"}, MaxRefs)}

InitWalk ==
    /\ catalog \in WalkCatalogs
    /\ graph = Build(catalog)
    /\ tieUp = {}
    /\ op = "idle"
    /\ args = <<>>
    /\ ret = ("idle" :> Ok(<<>>))
    /\ profile = <<>>
    /\ citizens = <<>>
    /\ applications = <<>>
    /\ pipelines = <<>>

\* Lines 208-211: dependents, visited and frontier before the first hop
WalkStart ==
    /\ op = "idle"
    /\ \E start \in AskNodes, h \in HopArgs \cup {MAX_HOPS} :
        /\ args' = [scheme_id |-> start, max_hops |-> h]
        /\ ReturnsExact("find_benefit_chain walking",
                        Ok([frontier |-> <<start>>, visited |-> InitialVisited(start),
                            dependents |-> <<>>, hops |-> 0]))
        /\ Frame

\* The locals after one more iteration of the hop loop, or the exception
WalkExpand(g, w) ==
    LET r == ScanFrontier(g, w.frontier,
                 [visited |-> w.visited, dependents |-> w.dependents, next |-> <<>>])
    IN  IF ~IsOk(r) THEN r
        ELSE Ok([frontier |-> r.value.next, visited |-> r.value.visited,
                 dependents |-> r.value.dependents, hops |-> w.hops + 1])

\* One step of the loop of lines 212-227: range(max_hops) is exhausted and
\* the walk returns; or the frontier is expanded, and the walk goes on
\* unless predecessors() raised or the new frontier is empty
WalkHop ==
    /\ op = "find_benefit_chain walking"
    /\ UNCHANGED args
    /\ IF ret[op].value.hops >= args.max_hops
       THEN ReturnsExact("find_benefit_chain walked", ret[op])
       ELSE LET r == WalkExpand(graph, ret[op].value)
            IN  IF IsOk(r) /\ r.value.frontier # <<>>
                THEN ReturnsExact("find_benefit_chain walking", r)
                ELSE ReturnsExact("find_benefit_chain walked", r)
    /\ Frame

NextWalk ==
    \/ WalkStart
    \/ WalkHop
    \/ Return

\* The loop runs on once it has started
SpecWalk == InitWalk /\ [][NextWalk]_vars /\ WF_vars(WalkHop)

(***************************************************************************)
(* The system over catalogs of one scheme whose rules come from a pool     *)
(* with well-formed and malformed values and with conditions               *)
(* evaluate_rule does not know.                                            *)
(***************************************************************************)
\* The number of rules of the scheme
MaxRules == 2

\* The values are "18", "abc", "", "250000", "n/a", "10", "six", "female",
\* "true", "6" and "12.5"
RulePool ==
    {Rule("age_min_18", "age_min", ">=", <<"1", "8">>),
     Rule("age_min_abc", "age_min", ">=", <<"a", "b", "c">>),
     Rule("age_max_1", "age_max", "<=", <<"1">>),
     Rule("education_min_diploma", "education_min", ">=", <<"diploma">>),
     Rule("education_max_diploma", "education_max", "<=", <<"diploma">>),
     Rule("education_min_graduate", "education_min", ">=", <<"graduate">>),
     Rule("age_max_empty", "age_max", "<=", <<>>),
     Rule("age_max_decimal", "age_max", "<=", <<"1", "2", ".", "5">>),
     Rule("income_max_250000", "income_max", "<=", <<"2", "5", "0", "0", "0", "0">>),
     Rule("income_max_na", "income_max", "<=", <<"n", "/", "a">>),
     Rule("child_age_max_10", "custom", "child_age_max", <<"1", "0">>),
     Rule("child_age_max_six", "custom", "child_age_max", <<"s", "i", "x">>),
     Rule("sc_st_or_female", "custom", "sc_st_or_female", <<>>),
     Rule("gender_female", "gender", "==", <<"female">>),
     Rule("is_widow", "custom", "is_widow", <<"t", "r", "u", "e">>),
     Rule("no_condition", "custom", "", <<"6">>),
     Rule("child_age_min_abc", "custom", "child_age_min", <<"a", "b", "c">>)}

RuleScheme(rules) ==
    [scheme_id |-> "s1",
     name |-> "s1",
     benefit_amount |-> 1000,
     eligibility_rules |-> rules,
     required_documents |-> <<>>,
     execution_tier |-> 2,
     approval_rate |-> RNorm(7, 10),
     depends_on |-> <<>>,
     conflicts_with |-> <<>>]

\* A scheme of three rules, for scores in thirds
ThirdsCatalog ==
    <<RuleScheme(<<Rule("age_min_18", "age_min", ">=", <<"1", "8">>),
                   Rule("gender_female", "gender", "==", <<"female">>),
                   Rule("income_max_250000", "income_max", "<=",
                        <<"2", "5", "0", "0", "0", "0">>)>>)>>

\* Catalogs of one scheme: of no rule, of up to MaxRules rules, of three rules
RuleCatalogs ==
    {<<RuleScheme(rules)>> : rules \in SeqsUpTo(RulePool, MaxRules)} \cup {ThirdsCatalog}

\* Profiles with and without an age, and with and without a child
RuleCitizens ==
    {[DefaultCitizen EXCEPT !.age = a, !.gender = g, !.family_members = fam] :
        a \in {<<>>, <<5>>, <<40>>}, g \in {"male", "female"},
        fam \in {<<>>, <<Spouse>>, <<Spouse, Daughter(5)>>}}

\* Profiles of the ages at and next to the limits of the rules
ScorerCitizens ==
    {[DefaultCitizen EXCEPT !.age = a] :
        a \in {<<>>, <<0>>, <<1>>, <<2>>, <<17>>, <<18>>, <<40>>}}

\* Profiles of every education level
EducationCitizens ==
    {[DefaultCitizen EXCEPT !.education = EduLadder[i]] : i \in 1..Len(EduLadder)}

InitRules ==
    /\ catalog \in RuleCatalogs
    /\ graph = Build(catalog)
    /\ tieUp = {}
    /\ op = "idle"
    /\ args = <<>>
    /\ ret = ("idle" :> Ok(<<>>))
    /\ profile = <<>>
    /\ citizens = <<>>
    /\ applications = <<>>
    /\ pipelines = <<>>

RulesDiscoverSchemes ==
    /\ op = "idle"
    /\ \E c \in RuleCitizens :
        \E o \in DiscoverSchemes(catalog, graph, c) :
            /\ args' = [citizen |-> c]
            /\ Returns("discover_schemes", o)
            /\ Frame

RulesEvaluateRule ==
    /\ op = "idle"
    /\ \E rule \in Range(catalog[1].eligibility_rules),
          c \in RuleCitizens \cup EducationCitizens :
        /\ args' = [rule |-> rule, citizen |-> c]
        /\ ReturnsExact("evaluate_rule", EvaluateRule(rule, c))
        /\ Frame

\* The rule-based scorer on the scheme of the catalog
RulesPredictRejection ==
    /\ op = "idle"
    /\ \E c \in ScorerCitizens :
        \E o \in RuleBasedAnalyses(c, catalog[1]) :
            /\ args' = [citizen |-> c, scheme |-> catalog[1]]
            /\ Returns("validation.predict_rejection", o)
            /\ Frame

NextRules ==
    \/ RulesDiscoverSchemes
    \/ RulesEvaluateRule
    \/ RulesPredictRejection
    \/ Return

SpecRules == InitRules /\ [][NextRules]_vars

(***************************************************************************)
(* agents/profiler.py, agents/execution.py, agents/appeals.py and          *)
(* routers/applications.py: profiles, applications and their requests.     *)
(* An id made from uuid4 is taken to be new: the n-th stored profile has   *)
(* the citizen_id n and the n-th stored application the application_id n.  *)
(* Timestamps are left out but for whether a date is set: <<>> is None.    *)
(***************************************************************************)
\* Gender, CasteCategory and Occupation of models/citizen.py
Genders == {"male", "female", "other"}

CasteCategories == {"general", "obc", "sc", "st", "ews"}

Occupations ==
    {"farmer", "daily_wage", "self_employed", "salaried", "student", "homemaker",
     "unemployed", "retired", "other"}

\* ProfilerAgent.create_profile: the enum constructors raise ValueError for a
\* value that is no member
CreateProfile(data) ==
    IF /\ data.gender \in Genders
       /\ data.caste_category \in CasteCategories
       /\ data.occupation \in Occupations
       /\ InSeq(data.education, EduLadder)
    THEN Ok(data)
    ELSE Raise("ValueError")

\* ProfilerAgent.get_profile: None is <<>>
GetProfile(store, citizen_id) ==
    IF citizen_id \in 1..Len(store) THEN <<store[citizen_id]>> ELSE <<>>

\* Retry configuration
MAX_RETRIES == 3

\* An AuditEntry: the action with the tier and the attempt its text names
\* (0 where the text names none), the agent, the details and the success
AuditEntry(action, tier, attempt, agent, details, success) ==
    [action |-> action, tier |-> tier, attempt |-> attempt, agent |-> agent,
     details |-> details, success |-> success]

\* Application.add_audit
AddAudit(app, entry) == [app EXCEPT !.audit_trail = Append(@, entry)]

\* Application(...) of submit_application, with the defaults of the other fields
NewApplication(app_id, citizen_id, scheme) ==
    [application_id |-> app_id,
     citizen_id |-> citizen_id,
     scheme_id |-> scheme.scheme_id,
     status |-> "draft",
     submission_date |-> <<>>,
     confirmation_number |-> "",
     execution_tier |-> scheme.execution_tier,
     rejection_reason |-> <<>>,
     rejection_date |-> <<>>,
     appeal_letter |-> "",
     appeal_date |-> <<>>,
     disbursement_details |-> "",
     audit_trail |-> <<>>]

\* The action of _execute_tier
TierAction(tier) ==
    IF tier = 1 THEN "API submission to portal"
    ELSE IF tier = 2 THEN "Web automation form-fill"
    ELSE "PDF generation and upload"

\* _execute_tier without a confirmation number in its result
ExecuteTierUnconfirmed(tier, attempt, success) ==
    [success |-> success,
     message |-> <<TierAction(tier), IF success THEN "succeeded" ELSE "failed">>,
     confirmation |-> ""]

\* _execute_tier, where success is the outcome of random.random() < prob
ExecuteTier(tier, attempt, success) ==
    [success |-> success,
     message |-> <<TierAction(tier), IF success THEN "succeeded" ELSE "failed">>,
     confirmation |-> IF success THEN "CONF" ELSE ""]

\* The loop of submit_application from the given attempt on; rolls[i] is the
\* outcome of the i-th call of _execute_tier
RECURSIVE AttemptLoop(_, _, _, _)
AttemptLoop(app, tier, attempt, rolls) ==
    IF attempt > MAX_RETRIES THEN [app |-> app, success |-> FALSE]
    ELSE LET result == ExecuteTier(tier, attempt, rolls[attempt])
             tried  == AddAudit(app, AuditEntry("Tier submission attempt", tier, attempt,
                                                "ExecutionAgent", result.message,
                                                result.success))
         IN  IF result.success
             THEN [app |-> [tried EXCEPT !.confirmation_number = result.confirmation],
                   success |-> TRUE]
             ELSE IF attempt = MAX_RETRIES /\ tier < 3
             THEN AttemptLoop(
                      AddAudit([tried EXCEPT !.execution_tier = tier + 1],
                               AuditEntry("Tier fallback", tier + 1, 0, "ExecutionAgent",
                                          <<"Falling back">>, TRUE)),
                      tier + 1, attempt + 1, rolls)
             ELSE AttemptLoop(tried, tier, attempt + 1, rolls)

\* ExecutionAgent.submit_application: the outcome and the store it leaves
SubmitApplication(cat, store, citizen_id, scheme_id, rolls) ==
    IF scheme_id \notin SchemeMapIds(cat)
    THEN [result |-> Raise("ValueError"), applications |-> store]
    ELSE LET scheme == SchemeMapGet(cat, scheme_id)
             draft  == NewApplication(Len(store) + 1, citizen_id, scheme)
             ended  == AttemptLoop(draft, scheme.execution_tier, 1, rolls)
             app    == IF ended.success
                       THEN [ended.app EXCEPT !.status = "submitted",
                                              !.submission_date = <<"now">>]
                       ELSE AddAudit([ended.app EXCEPT !.status = "draft"],
                                     AuditEntry("Submission failed", 0, 0, "ExecutionAgent",
                                                <<"All tiers exhausted">>, FALSE))
         IN  [result |-> Ok(app), applications |-> Append(store, app)]

\* _applications.get(application_id): None is <<>>
GetApplication(store, application_id) ==
    IF application_id \in 1..Len(store) THEN <<store[application_id]>> ELSE <<>>

\* The status progression of poll_status for random.random() = roll / 100
Progress(app, roll) ==
    IF app.status = "submitted"
    THEN IF roll < 30
         THEN AddAudit([app EXCEPT !.status = "under_review"],
                       AuditEntry("Status update", 0, 0, "ExecutionAgent",
                                  <<"under review">>, TRUE))
         ELSE app
    ELSE IF app.status = "under_review"
    THEN IF roll < 20
         THEN AddAudit([app EXCEPT !.status = "approved",
                                   !.disbursement_details = "DBT"],
                       AuditEntry("Application approved", 0, 0, "ExecutionAgent",
                                  <<"approved">>, TRUE))
         ELSE IF roll < 30
         THEN AddAudit([app EXCEPT !.status = "rejected",
                                   !.rejection_reason =
                                       <<"document", "verification", "discrepancy", "found">>,
                                   !.rejection_date = <<"now">>],
                       AuditEntry("Application rejected", 0, 0, "ExecutionAgent",
                                  <<"Rejected">>, FALSE))
         ELSE app
    ELSE app

\* ExecutionAgent.poll_status: the application (None is <<>>) and the store
PollStatus(store, application_id, roll) ==
    IF GetApplication(store, application_id) = <<>>
    THEN [result |-> Ok(<<>>), applications |-> store]
    ELSE LET app == Progress(store[application_id], roll)
         IN  [result |-> Ok(<<app>>),
              applications |-> [store EXCEPT ![application_id] = app]]

\* AppealsAgent._categorize_reason, on the words of the reason
CategorizeReason(reason) ==
    IF \E w \in {"document", "missing", "incomplete", "discrepancy"} : InSeq(w, reason)
    THEN "document_discrepancy"
    ELSE IF \E w \in {"income", "salary", "earning"} : InSeq(w, reason)
    THEN "income_mismatch"
    ELSE IF \E w \in {"delay", "timeout", "processing"} : InSeq(w, reason)
    THEN "processing_delay"
    ELSE IF \E w \in {"age", "overaged", "underage"} : InSeq(w, reason)
    THEN "age_cutoff"
    ELSE "generic"

\* application.rejection_reason or the given words
ReasonOr(app, words) == IF app.rejection_reason = <<>> THEN words ELSE app.rejection_reason

\* AppealsAgent.analyze_rejection: the category of the reason
AnalyzeRejection(app) ==
    [application_id |-> app.application_id,
     rejection_reason |-> ReasonOr(app, <<"no", "specific", "reason", "provided">>),
     rejection_category |->
         CategorizeReason(ReasonOr(app, <<"no", "specific", "reason", "provided">>))]

\* AppealsAgent.generate_appeal_letter: the language the letter is written in
GenerateAppealLetter(app, language) ==
    [application_id |-> app.application_id,
     language |-> language,
     letter_text |-> IF language = "hindi" THEN "hindi letter" ELSE "english letter"]

\* AppealsAgent.submit_appeal
SubmitAppeal(app, appeal_letter) ==
    AddAudit([app EXCEPT !.status = "appealed",
                         !.appeal_letter = appeal_letter,
                         !.appeal_date = <<"now">>],
             AuditEntry("Appeal submitted", 0, 0, "AppealsAgent",
                        <<"appeal letter submitted">>, TRUE))

\* The guard of the appeal route, were every application appealable
AppealAlwaysAllowed(app) == TRUE

\* The guard of the appeal route
AppealAllowed(app) == app.status = "rejected"

\* POST /{application_id}/appeal: the response and the store it leaves;
\* submit_appeal changes the stored application itself
Appeal(store, people, application_id, citizen_id, language) ==
    IF GetApplication(store, application_id) = <<>>
    THEN [result |-> Raise("HTTP 404"), applications |-> store]
    ELSE IF ~AppealAllowed(store[application_id])
    THEN [result |-> Raise("HTTP 400"), applications |-> store]
    ELSE IF GetProfile(people, citizen_id) = <<>>
    THEN [result |-> Raise("HTTP 404"), applications |-> store]
    ELSE LET app    == store[application_id]
             letter == GenerateAppealLetter(app, language)
             after  == SubmitAppeal(app, letter.letter_text)
         IN  [result |-> Ok([analysis |-> AnalyzeRejection(app), letter |-> letter,
                             application |-> after]),
              applications |-> [store EXCEPT ![application_id] = after]]

\* POST /submit: the response and the store it leaves.  The ids 0 stand for
\* a body without citizen_id or scheme_id.
SubmitRoute(cat, store, people, citizen_id, scheme_id, rolls) ==
    IF citizen_id = 0 \/ scheme_id = ""
    THEN [result |-> Raise("HTTP 400"), applications |-> store]
    ELSE IF GetProfile(people, citizen_id) = <<>>
    THEN [result |-> Raise("HTTP 404"), applications |-> store]
    ELSE LET done == SubmitApplication(cat, store, citizen_id, scheme_id, rolls)
         IN  IF IsOk(done.result)
             THEN [result |-> Ok([status |-> "submitted",
                                  application |-> done.result.value]),
                   applications |-> done.applications]
             ELSE [result |-> Raise("HTTP 400"), applications |-> done.applications]

(***************************************************************************)
(* The requests on applications, over the source catalog and over a        *)
(* catalog with a scheme of tier 2 and one of tier 3.                      *)
(***************************************************************************)
\* The number of profiles and of applications stored here
MaxCitizens == 1

MaxApps == 1

\* Schemes of the execution tiers 2 and 3
TierCatalog ==
    <<[GenScheme("t2", <<>>) EXCEPT !.execution_tier = 2],
      [GenScheme("t3", <<>>) EXCEPT !.execution_tier = 3]>>

\* The scheme ids applications are submitted for here: one of tier 1 from
\* the source catalog, the ones of tiers 2 and 3, an unknown one and none
SubmitIds == (CatalogIds \cap {"pm_kisan", "t2", "t3"}) \cup {UnknownId, ""}

\* Bodies for create_profile: the defaults, and a gender that is none
ProfileData == {DefaultCitizen, [DefaultCitizen EXCEPT !.gender = "unknown"]}

\* random.random() * 100 in [0, 20), [20, 30) and [30, 100)
Rolls == {10, 25, 60}

InitApps ==
    /\ catalog \in {SCHEMES, TierCatalog}
    /\ graph = Build(catalog)
    /\ tieUp = {}
    /\ op = "idle"
    /\ args = <<>>
    /\ ret = ("idle" :> Ok(<<>>))
    /\ profile = <<>>
    /\ citizens = <<>>
    /\ applications = <<>>
    /\ pipelines = <<>>

\* What a request leaves of the catalog system
StoreFrame == UNCHANGED <<catalog, graph, pipelines>> /\ profile' = <<>>

CallCreateProfile ==
    /\ op = "idle"
    /\ Len(citizens) < MaxCitizens
    /\ \E data \in ProfileData :
        /\ args' = [data |-> data]
        /\ ReturnsExact("create_profile", CreateProfile(data))
        /\ citizens' = IF IsOk(CreateProfile(data)) THEN Append(citizens, data)
                       ELSE citizens
        /\ UNCHANGED applications
        /\ StoreFrame

CallSubmitApplication ==
    /\ op = "idle"
    /\ Len(applications) < MaxApps
    /\ \E citizen_id \in 1..Len(citizens), scheme_id \in SubmitIds,
          rolls \in [1..MAX_RETRIES -> BOOLEAN] :
        LET done == SubmitApplication(catalog, applications, citizen_id, scheme_id, rolls)
        IN  /\ args' = [citizen_id |-> citizen_id, scheme_id |-> scheme_id]
            /\ ReturnsExact("submit_application", done.result)
            /\ applications' = done.applications
            /\ UNCHANGED citizens
            /\ StoreFrame

PostSubmit ==
    /\ op = "idle"
    /\ Len(applications) < MaxApps
    /\ \E citizen_id \in 0..(Len(citizens) + 1), scheme_id \in SubmitIds,
          rolls \in [1..MAX_RETRIES -> BOOLEAN] :
        LET done == SubmitRoute(catalog, applications, citizens, citizen_id, scheme_id,
                                rolls)
        IN  /\ args' = [citizen_id |-> citizen_id, scheme_id |-> scheme_id]
            /\ ReturnsExact("POST /submit", done.result)
            /\ applications' = done.applications
            /\ UNCHANGED citizens
            /\ StoreFrame

GetApplicationStatus ==
    /\ op = "idle"
    /\ \E application_id \in 1..(Len(applications) + 1), roll \in Rolls :
        LET done == PollStatus(applications, application_id, roll)
        IN  /\ args' = [application_id |-> application_id]
            /\ ReturnsExact("GET /{application_id}",
                            IF done.result.value = <<>> THEN Raise("HTTP 404")
                            ELSE Ok([application |-> done.result.value[1]]))
            /\ applications' = done.applications
            /\ UNCHANGED citizens
            /\ StoreFrame

PostAppeal ==
    /\ op = "idle"
    /\ \E application_id \in 1..(Len(applications) + 1),
          citizen_id \in 0..Len(citizens), language \in {"english", "hindi"} :
        LET done == Appeal(applications, citizens, application_id, citizen_id, language)
        IN  /\ args' = [application_id |-> application_id, citizen_id |-> citizen_id,
                        language |-> language]
            /\ ReturnsExact("POST /{application_id}/appeal", done.result)
            /\ applications' = done.applications
            /\ UNCHANGED citizens
            /\ StoreFrame

NextApps ==
    \/ CallCreateProfile
    \/ CallSubmitApplication
    \/ PostSubmit
    \/ GetApplicationStatus
    \/ PostAppeal
    \/ Return

SpecApps == InitApps /\ [][NextApps]_vars

(***************************************************************************)
(* agents/orchestrator.py: the pipeline profile -> eligibility ->          *)
(* documents -> adversarial -> execution.  The n-th stored pipeline has    *)
(* the pipeline_id n; the citizen_id 0 and the scheme id "" are the empty  *)
(* strings of the source.  Of an event the stage and the success are kept, *)
(* of a processed document its type.                                       *)
(***************************************************************************)
\* DocumentType of models/document.py
DocumentTypes ==
    {"aadhaar", "pan", "income_certificate", "caste_certificate", "domicile_certificate",
     "bank_statement", "educational_certificate", "birth_certificate",
     "disability_certificate", "bpl_card", "ration_card", "voter_id", "passport_photo"}

\* PipelineState(pipeline_id=pipeline_id)
NewPipelineState(pipeline_id) ==
    [pipeline_id |-> pipeline_id,
     citizen_id |-> 0,
     current_stage |-> "profile",
     events |-> <<>>,
     eligible_schemes |-> <<>>,
     selected_scheme_id |-> "",
     documents_processed |-> <<>>,
     rejection_analysis |-> <<>>,
     application |-> <<>>,
     error |-> ""]

PipelineEvent(stage, success) == [stage |-> stage, success |-> success]

\* state at the given stage with one more event
Staged(state, stage, success) ==
    [state EXCEPT !.current_stage = stage,
                  !.events = Append(@, PipelineEvent(stage, success))]

\* _run_profile_stage: the state and the profile store it leaves
RunProfileStage(state, people, data) ==
    IF IsOk(CreateProfile(data))
    THEN [state |-> [Staged(state, "profile", TRUE) EXCEPT !.citizen_id = Len(people) + 1],
          citizens |-> Append(people, CreateProfile(data).value)]
    ELSE [state |-> [[state EXCEPT !.events = Append(@, PipelineEvent("profile", FALSE))]
                        EXCEPT !.current_stage = "failed",
                               !.error = "Profile stage failed"],
          citizens |-> people]

\* The dict of eligible_schemes for a match
MatchSummary(cat, m) ==
    [scheme_id |-> m.scheme_id,
     scheme_name |-> SchemeMapGet(cat, m.scheme_id).name,
     eligibility_score |-> m.eligibility_score,
     approval_probability |-> m.approval_probability,
     benefit_amount |-> m.estimated_benefit,
     is_eligible |-> m.is_eligible,
     missing_documents |-> m.missing_documents,
     conflicts |-> m.conflicts,
     rank |-> m.rank]

\* The scheme _run_eligibility_stage selects: the one asked for, else the
\* first eligible match, else none
SelectedScheme(matches, scheme_id) ==
    LET eligible == SelectSeq(matches, LAMBDA m : m.is_eligible)
    IN  IF scheme_id # "" THEN scheme_id
        ELSE IF eligible # <<>> THEN eligible[1].scheme_id
        ELSE ""

\* _run_eligibility_stage, where found is the outcome of discover_schemes
RunEligibilityStage(cat, state, found, scheme_id) ==
    IF IsOk(found)
    THEN [Staged(state, "eligibility", TRUE) EXCEPT
              !.eligible_schemes =
                  [i \in 1..Len(found.value) |-> MatchSummary(cat, found.value[i])],
              !.selected_scheme_id = SelectedScheme(found.value, scheme_id)]
    ELSE Staged(state, "eligibility", FALSE)

\* _run_document_stage: the first five documents of the citizen, or aadhaar
\* and income_certificate for a citizen with none, that are document types
RunDocumentStage(state, c) ==
    LET named == IF c.documents = <<>> THEN <<"aadhaar", "income_certificate">>
                 ELSE c.documents
        first == SubSeq(named, 1, IF Len(named) < 5 THEN Len(named) ELSE 5)
    IN  [Staged(state, "documents", TRUE) EXCEPT
             !.documents_processed = SelectSeq(first, LAMBDA d : d \in DocumentTypes)]

\* The scheme start_workflow passes to the adversarial and execution stages:
\* state.selected_scheme_id or the first entry of eligible_schemes
TargetScheme(state) ==
    IF state.selected_scheme_id # "" THEN state.selected_scheme_id
    ELSE IF state.eligible_schemes # <<>> THEN state.eligible_schemes[1].scheme_id
    ELSE ""

\* _run_adversarial_stage, where analysis is the outcome of predict_rejection
RunAdversarialStage(state, analysis) ==
    IF ~IsOk(analysis) THEN Staged(state, "adversarial", FALSE)
    ELSE IF analysis.value = <<>> THEN [state EXCEPT !.current_stage = "adversarial"]
    ELSE [Staged(state, "adversarial", TRUE) EXCEPT !.rejection_analysis = analysis.value]

\* _run_execution_stage, where submitted is the outcome of submit_application
RunExecutionStage(state, submitted) ==
    IF IsOk(submitted)
    THEN [Staged(state, "execution", TRUE) EXCEPT !.application = <<submitted.value>>]
    ELSE Staged(state, "execution", FALSE)

\* What start_workflow leaves: the state it returns, the stores, and the
\* floating-point ties it resolved upwards
Flowed(state, people, store, up) ==
    [state |-> state, citizens |-> people, applications |-> store, tieUp |-> up]

\* start_workflow from the eligibility stage on, for the outcome found of
\* discover_schemes
WorkflowStages(cat, store, made, scheme_id, rolls, found) ==
    LET c        == made.citizens[made.state.citizen_id]
        prepared == RunDocumentStage(
                        RunEligibilityStage(cat, made.state, found.result, scheme_id), c)
        target   == TargetScheme(prepared)
    IN  IF target = ""
        THEN {Flowed([prepared EXCEPT !.current_stage = "complete"], made.citizens, store,
                     found.tieUp)}
        ELSE {LET done == SubmitApplication(cat, store, made.state.citizen_id, target,
                                            rolls)
                  ended == RunExecutionStage(RunAdversarialStage(prepared, a.result),
                                             done.result)
              IN  Flowed([ended EXCEPT !.current_stage = "complete"], made.citizens,
                         done.applications, found.tieUp \cup a.tieUp)
                 : a \in {x \in PredictRejection(cat, c, target) : Agree(found, x)}}

\* OrchestratorAgent.start_workflow: the possible outcomes
StartWorkflow(cat, g, people, store, pipeline_id, profile_data, scheme_id, rolls) ==
    LET made == RunProfileStage(NewPipelineState(pipeline_id), people, profile_data)
    IN  IF made.state.current_stage = "failed"
        THEN {Flowed(made.state, made.citizens, store, {})}
        ELSE UNION {WorkflowStages(cat, store, made, scheme_id, rolls, found)
                       : found \in DiscoverSchemes(cat, g,
                                                   made.citizens[made.state.citizen_id])}

\* OrchestratorAgent.get_pipeline: None is <<>>
GetPipeline(store, pipeline_id) ==
    IF pipeline_id \in 1..Len(store) THEN <<store[pipeline_id]>> ELSE <<>>

(***************************************************************************)
(* The pipeline over the source catalog                                    *)
(***************************************************************************)
\* The number of pipelines run here
MaxPipelines == 1

\* A farmer of 30 years with an income of 170000
FarmerData ==
    [DefaultCitizen EXCEPT !.age = <<30>>, !.occupation = "farmer",
                           !.annual_income = RInt(170000)]

\* Bodies for start_workflow: the farmer, a profile of defaults only, and a
\* gender that is none
FlowData == {FarmerData, DefaultCitizen, [DefaultCitizen EXCEPT !.gender = "unknown"]}

\* The scheme ids start_workflow is given here: none, a known and an unknown one
FlowIds == {"", "pm_kisan", UnknownId}

InitFlow ==
    /\ catalog = SCHEMES
    /\ graph = Build(catalog)
    /\ tieUp = {}
    /\ op = "idle"
    /\ args = <<>>
    /\ ret = ("idle" :> Ok(<<>>))
    /\ profile = <<>>
    /\ citizens = <<>>
    /\ applications = <<>>
    /\ pipelines = <<>>

CallStartWorkflow ==
    /\ op = "idle"
    /\ Len(pipelines) < MaxPipelines
    /\ \E profile_data \in FlowData, scheme_id \in FlowIds,
          rolls \in [1..MAX_RETRIES -> BOOLEAN] :
        \E o \in StartWorkflow(catalog, graph, citizens, applications, Len(pipelines) + 1,
                               profile_data, scheme_id, rolls) :
            /\ args' = [profile_data |-> profile_data, scheme_id |-> scheme_id]
            /\ Returns("start_workflow", Outcome({}, o.tieUp, Ok(o.state)))
            /\ citizens' = o.citizens
            /\ applications' = o.applications
            /\ pipelines' = Append(pipelines, o.state)
            /\ UNCHANGED <<catalog, graph>>
            /\ profile' = <<>>

CallGetPipeline ==
    /\ op = "idle"
    /\ \E pipeline_id \in 1..(Len(pipelines) + 1) :
        /\ args' = [pipeline_id |-> pipeline_id]
        /\ ReturnsExact("get_pipeline", Ok(GetPipeline(pipelines, pipeline_id)))
        /\ Frame

NextFlow ==
    \/ CallStartWorkflow
    \/ CallGetPipeline
    \/ Return

SpecFlow == InitFlow /\ [][NextFlow]_vars

(***************************************************************************)
(* Properties of the catalog system                                        *)
(***************************************************************************)
\* The outcome of the last call and, when it returned, its value
Result == ret[op]

Returned == Result.value

\* C1: discover_schemes returns one match per catalog scheme, every eligible
\* match before every ineligible one, and inside each group the product
\* estimated_benefit * approval_probability of the returned matches never
\* increases from one position to the next.
C1_DiscoverOrdered ==
    op = "discover_schemes" =>
        /\ IsOk(Result)
        /\ Len(Returned) = Len(catalog)
        /\ \A k \in 1..Len(catalog) :
               Cardinality({i \in 1..Len(Returned) :
                               Returned[i].scheme_id = catalog[k].scheme_id}) = 1
        /\ \A i, j \in 1..Len(Returned) :
               i < j /\ Returned[j].is_eligible => Returned[i].is_eligible
        /\ \A i \in 1..(Len(Returned) - 1) :
               Returned[i].is_eligible = Returned[i + 1].is_eligible =>
                   Returned[i].estimated_benefit * Returned[i].approval_probability
                       >= Returned[i + 1].estimated_benefit
                              * Returned[i + 1].approval_probability

\* An ineligible match of larger product than the last eligible one, behind it
C1_Witness ==
    /\ op = "discover_schemes"
    /\ IsOk(Result)
    /\ \E i, j \in 1..Len(Returned) :
           /\ i < j
           /\ Returned[i].is_eligible
           /\ ~Returned[j].is_eligible
           /\ Returned[j].estimated_benefit * Returned[j].approval_probability
                  > Returned[i].estimated_benefit * Returned[i].approval_probability
    /\ \E i \in 1..(Len(Returned) - 1) :
           /\ Returned[i].is_eligible /\ Returned[i + 1].is_eligible
           /\ Returned[i].estimated_benefit * Returned[i].approval_probability
                  > Returned[i + 1].estimated_benefit * Returned[i + 1].approval_probability

\* The four-tier ladder on a probability in hundredths
LadderOf(p) ==
    IF p >= 70 THEN "critical"
    ELSE IF p >= 50 THEN "high"
    ELSE IF p >= 30 THEN "medium"
    ELSE "low"

AnalysisReturned == op = "predict_rejection" /\ IsOk(Result) /\ Returned # <<>>

\* C2: the risk_level of every analysis predict_rejection returns is the one
\* the ladder assigns to the returned two-decimal rejection_probability.
C2_LevelMatchesReturned ==
    AnalysisReturned => Returned[1].risk_level = LadderOf(Returned[1].rejection_probability)

\* C3: the rejection_probability predict_rejection returns lies in [0, 1]
\* for every citizen, catalog scheme and noise value.
C3_ProbabilityInUnitInterval ==
    AnalysisReturned =>
        Returned[1].rejection_probability >= 0 /\ Returned[1].rejection_probability <= 100

\* An income many times the limit and every presence check failing
C3_Witness ==
    /\ AnalysisReturned
    /\ args.citizen.annual_income = RInt(5000000)
    /\ Len(Returned[1].risk_factors) >= 4
    /\ Returned[1].rejection_probability >= 60

ConflictEdge(a, b) == GetEdgeData(graph, a, b) = <<"CONFLICTS_WITH">>

\* The sorted pairs of members of ids that a CONFLICTS_WITH edge joins
ConflictingPairs(ids) ==
    {<<a, b>> \in Range(ids) \X Range(ids) :
        NodeLeq(a, b) /\ (ConflictEdge(a, b) \/ ConflictEdge(b, a))}

AllCatalogNodes(ids) == \A i \in 1..Len(ids) : ids[i][1] = "" /\ ids[i][2] \in CatalogIds

\* C4: for a list of catalog scheme ids, detect_conflicts returns exactly the
\* pairs of listed ids joined by a CONFLICTS_WITH edge, each once and in
\* sorted order; [sukanya_samriddhi, beti_bachao] gives exactly one pair.
C4_ConflictPairsExact ==
    op = "detect_conflicts" /\ AllCatalogNodes(args.scheme_ids) =>
        /\ IsOk(Result)
        /\ NoDup(Returned)
        /\ Range(Returned) = ConflictingPairs(args.scheme_ids)
        /\ args.scheme_ids = <<SchemeNode("sukanya_samriddhi"), SchemeNode("beti_bachao")>>
               => Len(Returned) = 1

\* The conflicting pair listed with one of its ids repeated
C4_Witness ==
    /\ op = "detect_conflicts"
    /\ args.scheme_ids = <<SchemeNode("sukanya_samriddhi"), SchemeNode("beti_bachao"),
                           SchemeNode("sukanya_samriddhi")>>
    /\ Returned = <<<<SchemeNode("beti_bachao"), SchemeNode("sukanya_samriddhi")>>>>

(***************************************************************************)
(* Properties of the system over other catalogs                            *)
(***************************************************************************)
\* The scheme a of the catalog lists b, a scheme of the catalog, in conflicts_with
DeclaresConflict(a, b) ==
    /\ b \in CatalogIds
    /\ \E i \in 1..Len(catalog) :
           catalog[i].scheme_id = a /\ InSeq(b, catalog[i].conflicts_with)

\* The list s in every order
Reorderings(s) ==
    {[i \in 1..Len(s) |-> s[f[i]]] : f \in Permutations(1..Len(s))}

\* Two outcomes of detect_conflicts report the same set of pairs
SamePairs(r1, r2) ==
    /\ IsOk(r1) = IsOk(r2)
    /\ IsOk(r1) => Range(r1.value) = Range(r2.value)

RECURSIVE DependentsWithin(_, _, _)
DependentsWithin(g, start, h) ==
    IF h <= 0 THEN {start}
    ELSE Bind(DependentsWithin(g, start, h - 1),
              LAMBDA W :
                  W \cup {u \in NodeIds(g) :
                             \E v \in W : GetEdgeData(g, u, v) = <<"DEPENDS_ON">>})

\* C6: the list find_benefit_chain returns holds no id twice, does not hold
\* the start scheme, and holds only schemes from which the start scheme is
\* reached by at most max_hops DEPENDS_ON edges (MAX_HOPS by default).
C6_ChainBounded ==
    op = "find_benefit_chain" /\ IsOk(Result) =>
        /\ NoDup(Returned)
        /\ ~InSeq(args.scheme_id, Returned)
        /\ Range(Returned) \subseteq DependentsWithin(graph, args.scheme_id, args.max_hops)
        /\ Range(Returned) \subseteq {SchemeNode(i) : i \in CatalogIds}

\* The cycle of three schemes walked from s1 with the default max_hops
C6_Witness ==
    /\ op = "find_benefit_chain"
    /\ catalog = CycleCatalog
    /\ args = [scheme_id |-> SchemeNode("s1"), max_hops |-> MAX_HOPS]
    /\ Returned = <<SchemeNode("s2"), SchemeNode("s3")>>

(***************************************************************************)
(* Further properties of the catalog system                                *)
(***************************************************************************)
\* C7: predict_rejection and verify_eligibility return None for a scheme id
\* that is not in the catalog, and the keys of batch_predict's result are
\* exactly the requested ids that are in the catalog; none of them raises.
C7_UnknownIdGivesNone ==
    /\ op \in {"predict_rejection", "verify_eligibility"} /\ args.scheme_id \notin CatalogIds
           => Result = Ok(<<>>)
    /\ op = "batch_predict"
           => IsOk(Result) /\ DOMAIN Returned = Range(args.scheme_ids) \cap CatalogIds

\* A batch that mixes a catalog id with an unknown one
C7_Witness ==
    /\ op = "batch_predict"
    /\ args.scheme_ids = <<UnknownId, "pm_kisan">>
    /\ IsOk(Result)
    /\ DOMAIN Returned = {"pm_kisan"}

\* C8: find_benefit_chain, the agent's find_benefit_chains and
\* detect_conflicts return a result also when they are asked about a scheme
\* id that is not in the catalog; they never raise.
C8_LookupsNeverRaise ==
    op \in {"find_benefit_chain", "find_benefit_chains", "detect_conflicts"} => IsOk(Result)

(***************************************************************************)
(* Properties of the system over catalogs of one scheme                    *)
(***************************************************************************)
\* The rule is of a kind that parses its value as a number, and the value
\* does not parse
MalformedNumeric(rule) ==
    \/ rule.rule_type \in {"age_min", "age_max"} /\ ~ParseInt(rule.value).ok
    \/ rule.rule_type = "income_max" /\ ~ParseFloat(rule.value).ok
    \/ /\ rule.rule_type = "custom" /\ rule.condition = "child_age_max"
       /\ ~ParseInt(rule.value).ok

\* The scheme of the match m
SchemeOf(m) == SchemeMapGet(catalog, m.scheme_id)

\* C9: discover_schemes never returns a match that lists under failed_rules
\* a rule of a numeric kind whose value does not parse as a number.
C9_MalformedValueSurfaces ==
    op = "discover_schemes" /\ IsOk(Result) =>
        \A i \in 1..Len(Returned) :
            \A k \in 1..Len(SchemeOf(Returned[i]).eligibility_rules) :
                MalformedNumeric(SchemeOf(Returned[i]).eligibility_rules[k])
                    => ~InSeq(RuleLabel(SchemeOf(Returned[i]).eligibility_rules[k]),
                              Returned[i].failed_rules)

\* The rule is of kind custom and evaluate_rule does not know its condition
UnknownCustom(rule) ==
    rule.rule_type = "custom" /\ rule.condition \notin {"child_age_max", "sc_st_or_female"}

\* C10: evaluate_rule returns False, and does not raise, for a custom rule
\* whose condition is neither child_age_max nor sc_st_or_female, whatever the
\* citizen and the rule's value; a match discover_schemes returns for a
\* scheme with such a rule lists the rule as failed and is not eligible.
C10_UnknownConditionFails ==
    /\ op = "evaluate_rule" /\ UnknownCustom(args.rule) => Result = Ok(FALSE)
    /\ op = "discover_schemes" /\ IsOk(Result) =>
           \A i \in 1..Len(Returned) :
               \A k \in 1..Len(SchemeOf(Returned[i]).eligibility_rules) :
                   UnknownCustom(SchemeOf(Returned[i]).eligibility_rules[k])
                       => /\ ~Returned[i].is_eligible
                          /\ InSeq(RuleLabel(SchemeOf(Returned[i]).eligibility_rules[k]),
                                   Returned[i].failed_rules)

\* A scheme whose rules are one the citizen meets and one with an unknown
\* condition and a value no number: the match is returned, and not eligible
C10_Witness ==
    /\ op = "discover_schemes"
    /\ catalog[1].eligibility_rules =
           <<Rule("gender_female", "gender", "==", <<"female">>),
             Rule("child_age_min_abc", "custom", "child_age_min", <<"a", "b", "c">>)>>
    /\ args.citizen.gender = "female"
    /\ IsOk(Result)
    /\ Returned[1].matched_rules = <<"gender_female">>
    /\ Returned[1].failed_rules = <<"child_age_min_abc">>
    /\ ~Returned[1].is_eligible

(***************************************************************************)
(* Properties of evaluate_rule and of the matches of the catalog system    *)
(***************************************************************************)
\* The citizen c at the age a
AtAge(c, a) == [c EXCEPT !.age = <<a>>]

\* The age the claim compares: an absent age counts as 0
ComparedAge(c) == IF c.age = <<>> THEN 0 ELSE c.age[1]

\* The whole-number limit of an age rule
LimitOf(rule) == ParseInt(rule.value).v

\* C11: a well-formed age_min rule that holds at an age holds at every
\* greater age, a well-formed age_max rule that holds at an age holds at
\* every smaller age, a well-formed income_max rule that holds at an income
\* holds at every smaller income; with no age the rule is evaluated as at
\* age 0 (an age_max rule with a limit >= 0 holds, an age_min rule with a
\* limit > 0 does not), and the evaluation does not raise.
C11_NumericRulesMonotone ==
    op = "evaluate_rule" /\ args.rule.rule_type \in NumericKinds
                         /\ ~MalformedNumeric(args.rule) =>
        /\ IsOk(Result)
        /\ \A c \in NumericCitizens :
               /\ args.rule.rule_type = "age_min" /\ Returned
                  /\ ComparedAge(c) >= ComparedAge(args.citizen)
                  => EvaluateRule(args.rule, c) = Ok(TRUE)
               /\ args.rule.rule_type = "age_max" /\ Returned
                  /\ ComparedAge(c) <= ComparedAge(args.citizen)
                  => EvaluateRule(args.rule, c) = Ok(TRUE)
               /\ args.rule.rule_type = "income_max" /\ Returned
                  /\ RLeq(c.annual_income, args.citizen.annual_income)
                  => EvaluateRule(args.rule, c) = Ok(TRUE)
        /\ args.citizen.age = <<>> =>
               /\ Result = EvaluateRule(args.rule, AtAge(args.citizen, 0))
               /\ args.rule.rule_type = "age_max" /\ LimitOf(args.rule) >= 0 => Returned
               /\ args.rule.rule_type = "age_min" /\ LimitOf(args.rule) > 0 => ~Returned

\* A citizen with no age under an age_max rule of the catalog
C11_Witness ==
    /\ op = "evaluate_rule"
    /\ args.rule.rule_type = "age_max" /\ args.rule.value = <<"4", "0">>
    /\ args.citizen.age = <<>>
    /\ Result = Ok(TRUE)

\* The position of the scheme sid in the catalog
CatalogPos(sid) == CHOOSE k \in 1..Len(catalog) : catalog[k].scheme_id = sid

\* Two matches the sort does not tell apart
SameSortKey(a, b) ==
    /\ a.is_eligible = b.is_eligible
    /\ a.estimated_benefit * a.approval_probability
           = b.estimated_benefit * b.approval_probability

\* C12: two matches of one result of discover_schemes with the same
\* is_eligible and the same estimated_benefit * approval_probability stand in
\* the order of their schemes in the catalog.
C12_SortStable ==
    op = "discover_schemes" /\ IsOk(Result) =>
        \A i, j \in 1..Len(Returned) :
            i < j /\ SameSortKey(Returned[i], Returned[j])
                => CatalogPos(Returned[i].scheme_id) < CatalogPos(Returned[j].scheme_id)

\* Three ineligible matches of equal product whose schemes are not
\* neighbours in the catalog, behind matches of other keys
C12_Witness ==
    /\ op = "discover_schemes"
    /\ IsOk(Result)
    /\ Returned[1].is_eligible
    /\ \E i, j, k \in 1..Len(Returned) :
           /\ i < j /\ j < k
           /\ ~Returned[i].is_eligible
           /\ SameSortKey(Returned[i], Returned[j]) /\ SameSortKey(Returned[j], Returned[k])
           /\ CatalogPos(Returned[j].scheme_id) > CatalogPos(Returned[i].scheme_id) + 1

\* C13: the match at the i-th place (counted from 1) of a result of
\* discover_schemes has rank i, so the ranks are 1..N for a catalog of N
\* schemes; the match verify_eligibility returns for a scheme of the catalog
\* stands at the place of its rank in a result of discover_schemes for the
\* same citizen.
C13_RanksArePositions ==
    /\ op = "discover_schemes" /\ IsOk(Result) =>
           /\ \A i \in 1..Len(Returned) : Returned[i].rank = i
           /\ {Returned[i].rank : i \in 1..Len(Returned)} = 1..Len(catalog)
    /\ op = "verify_eligibility" /\ IsOk(Result) /\ args.scheme_id \in CatalogIds =>
           /\ Returned # <<>>
           /\ Returned[1].scheme_id = args.scheme_id
           /\ Returned[1].rank \in 1..Len(catalog)
           /\ \E o \in DiscoverSchemes(catalog, graph, args.citizen) :
                  /\ IsOk(o.result)
                  /\ o.result.value[Returned[1].rank] = Returned[1]

\* verify_eligibility returns a match that is not the first of the ranking
C13_Witness ==
    /\ op = "verify_eligibility"
    /\ args.scheme_id = "pm_kisan"
    /\ IsOk(Result)
    /\ Returned # <<>>
    /\ Returned[1].rank > 1

\* The labels of the rules that evaluate to b for the citizen, in rule order
LabelsWhere(rules, c, b) ==
    LET kept == SelectSeq(rules, LAMBDA r : EvaluateRule(r, c) = Ok(b))
    IN  [k \in 1..Len(kept) |-> RuleLabel(kept[k])]

\* matched_rules and failed_rules of the match hold one entry per rule of the
\* scheme, in rule order, and is_eligible tells that no rule failed
RulesPartitioned(m, c) ==
    LET rules == SchemeOf(m).eligibility_rules
    IN  /\ m.matched_rules = LabelsWhere(rules, c, TRUE)
        /\ m.failed_rules = LabelsWhere(rules, c, FALSE)
        /\ Len(m.matched_rules) + Len(m.failed_rules) = Len(rules)
        /\ m.is_eligible <=> (m.failed_rules = <<>>)
        /\ rules = <<>> => m.eligibility_score = 100 /\ m.is_eligible

\* C14 as stated: every match of discover_schemes partitions the rules of its
\* scheme, and its eligibility_score (in hundredths) is exactly the fraction
\* of the rules that matched.
C14_ScoreIsFraction ==
    op = "discover_schemes" /\ IsOk(Result) =>
        \A i \in 1..Len(Returned) :
            LET m == Returned[i]
                total == Len(SchemeOf(m).eligibility_rules)
            IN  /\ RulesPartitioned(m, args.citizen)
                /\ total # 0 =>
                       m.eligibility_score * total = 100 * Len(m.matched_rules)

\* C14 amended: every match of discover_schemes partitions the rules of its
\* scheme, and its eligibility_score is the fraction of the rules that matched
\* rounded to the nearest hundredth (1.0 for a scheme of no rule).
C14_ScoreIsRoundedFraction ==
    op = "discover_schemes" /\ IsOk(Result) =>
        \A i \in 1..Len(Returned) :
            LET m == Returned[i]
                total == Len(SchemeOf(m).eligibility_rules)
            IN  /\ RulesPartitioned(m, args.citizen)
                /\ m.eligibility_score \in 0..100
                /\ total # 0 =>
                       2 * Abs(m.eligibility_score * total - 100 * Len(m.matched_rules))
                           <= total

\* one rule of three matches: the score is 0.33
C14_Witness ==
    /\ op = "discover_schemes"
    /\ catalog = ThirdsCatalog
    /\ IsOk(Result)
    /\ Len(Returned[1].matched_rules) = 1
    /\ Len(Returned[1].failed_rules) = 2
    /\ Returned[1].eligibility_score = 33
    /\ ~Returned[1].is_eligible

\* The operations of the core that C15 names
CoreOps ==
    {"discover_schemes", "find_benefit_chain", "detect_conflicts", "stats",
     "predict_rejection", "update_prediction"}

C16_ConflictsSymmetric ==
    \A i \in 1..Len(graph.edges) :
        graph.edges[i].relation = "CONFLICTS_WITH"
            => GetEdgeData(graph, graph.edges[i].v, graph.edges[i].u)
                   = <<"CONFLICTS_WITH">>

\* The ids the catalog's schemes refer to under depends_on and conflicts_with
ReferencedIds ==
    UNION {Range(catalog[k].depends_on) \cup Range(catalog[k].conflicts_with)
              : k \in 1..Len(catalog)}

\* The edge touches the node
Touches(e, n) == e.u = n \/ e.v = n

\* C17: the graph built from the catalog has no node and no edge for a
\* depends_on or conflicts_with id that names no scheme of the catalog, and
\* every DEPENDS_ON and CONFLICTS_WITH edge joins two schemes of the catalog.
C17_UnknownReferencesDropped ==
    /\ graph = Build(catalog)
    /\ \A id \in ReferencedIds \ CatalogIds :
           /\ ~HasNode(graph, SchemeNode(id))
           /\ \A i \in 1..Len(graph.edges) : ~Touches(graph.edges[i], SchemeNode(id))
    /\ \A i \in 1..Len(graph.edges) :
           graph.edges[i].relation \in {"DEPENDS_ON", "CONFLICTS_WITH"}
               => /\ graph.edges[i].u \in {SchemeNode(id) : id \in CatalogIds}
                  /\ graph.edges[i].v \in {SchemeNode(id) : id \in CatalogIds}

\* a scheme depends on an id no scheme has and conflicts with that id, and
\* the graph has the nodes of the catalog's schemes only
C17_Witness ==
    /\ \E k \in 1..Len(catalog) :
           /\ InSeq(UnknownId, catalog[k].depends_on)
           /\ InSeq(UnknownId, catalog[k].conflicts_with)
    /\ UnknownId \notin CatalogIds
    /\ Len(graph.nodes) = Len(catalog)

\* The citizen of the scenario: income 550000, a farmer, no documents
IsScenarioFarmer(c) ==
    /\ c.annual_income = RInt(550000)
    /\ c.occupation = "farmer"
    /\ c.documents = <<>>

\* The match of the scheme in a result of discover_schemes
MatchOf(matches, scheme_id) == FirstWithId(matches, scheme_id)[1]

\* C18: for a citizen with income 550000, occupation farmer and no documents
\* the PM-KISAN match of discover_schemes is not eligible, fails the income
\* rule and only it, matches the occupation rule, and misses aadhaar,
\* bank_statement and income_certificate in this order; for every citizen and
\* scheme missing_documents is the required documents the citizen does not
\* hold, in the order of the catalog.
C18_FarmerScenario ==
    op = "discover_schemes" /\ IsOk(Result) =>
        /\ IsScenarioFarmer(args.citizen) =>
               LET m == MatchOf(Returned, "pm_kisan")
               IN  /\ ~m.is_eligible
                   /\ m.failed_rules = <<"Annual income <= Rs 5 lakh">>
                   /\ m.matched_rules = <<"Must be a farmer">>
                   /\ m.missing_documents
                          = <<"aadhaar", "bank_statement", "income_certificate">>
        /\ \A i \in 1..Len(Returned) :
               Returned[i].missing_documents
                   = SelectSeq(SchemeOf(Returned[i]).required_documents,
                               LAMBDA d : ~InSeq(d, args.citizen.documents))

\* the farmer of the scenario has been matched against the catalog
C18_Witness ==
    /\ op = "discover_schemes"
    /\ IsOk(Result)
    /\ args.citizen = [DefaultCitizen EXCEPT !.annual_income = RInt(550000),
                                             !.occupation = "farmer"]
    /\ ~MatchOf(Returned, "pm_kisan").is_eligible
    /\ Len(MatchOf(Returned, "pm_kisan").missing_documents) = 3

\* C19: for an analysis of predict_rejection, generate_recommendations
\* returns the recommendations of the analysis in their order, after the
\* high-risk banner iff risk_level is high or critical and before the
\* suggestion of assisted filing iff rejection_probability > 0.5; it leaves
\* the analysis and its list as they were; and the suggestion never comes
\* without the banner.
C19_RecommendationsFramed ==
    op = "generate_recommendations" =>
        LET a      == args.analysis
            banner == a.risk_level \in {"high", "critical"}
            csc    == a.rejection_probability > 50
        IN  /\ Returned.recs
                   = (IF banner THEN << <<"high_risk_banner">> >> ELSE <<>>)
                       \o a.recommendations
                       \o (IF csc THEN << <<"apply_through_csc">> >> ELSE <<>>)
            /\ Returned.analysis = a
            /\ csc => banner
            /\ InSeq(<<"apply_through_csc">>, Returned.recs)
                   => Returned.recs[1] = <<"high_risk_banner">>

\* an analysis with recommendations of its own gets the banner and the
\* suggestion of assisted filing
C19_Witness ==
    /\ op = "generate_recommendations"
    /\ args.analysis.recommendations # <<>>
    /\ args.analysis.rejection_probability > 50
    /\ Len(Returned.recs) = Len(args.analysis.recommendations) + 2

\* The sum of the risk_contribution (in hundredths) of the factors of the name
RECURSIVE ContributionOf(_, _)
ContributionOf(factors, name) ==
    IF factors = <<>> THEN 0
    ELSE (IF Head(factors).factor = name THEN Head(factors).risk_contribution ELSE 0)
             + ContributionOf(Tail(factors), name)

\* The citizen has an age, and it is within 1 of the limit of an age_min or
\* age_max rule of the scheme
NearAgeLimit(c, scheme) ==
    /\ c.age # <<>>
    /\ \E k \in 1..Len(scheme.eligibility_rules) :
           LET rule == scheme.eligibility_rules[k]
           IN  /\ rule.rule_type \in {"age_min", "age_max"}
               /\ ParseInt(rule.value).ok
               /\ Abs(c.age[1] - ParseInt(rule.value).v) <= 1

\* C20: in an analysis of the rule-based scorer the age-boundary factors
\* contribute 0.08 in all when the citizen's age, 0 included, is within 1 of
\* an age_min or age_max limit of the scheme, however many such limits are
\* near, and nothing otherwise.
C20_AgeBoundaryFlat ==
    op = "validation.predict_rejection" /\ IsOk(Result) =>
        ContributionOf(Returned.risk_factors, "Age Boundary Risk")
            = IF NearAgeLimit(args.citizen, args.scheme) THEN 8 ELSE 0

\* The operations that run twice on the same inputs
TwiceOps ==
    {"predict_rejection twice", "discover_schemes twice",
     "find_benefit_chain twice", "detect_conflicts twice"}

\* Two analyses differ by the noise alone: 0.4 times a difference of at most
\* 0.06 between the values of the feature-weighted scorer, and the rounding
SameButNoise(a, b) ==
    /\ a.risk_factors = b.risk_factors
    /\ a.recommendations = b.recommendations
    /\ a.common_rejection_patterns = b.common_rejection_patterns
    /\ Abs(a.rejection_probability - b.rejection_probability) <= 3

ShortestPath(g, u, start, h) ==
    CHOOSE k \in 1..h :
        /\ u \in DependentsWithin(g, start, k)
        /\ u \notin DependentsWithin(g, start, k - 1)

\* C22: for a start node of the graph (or max_hops <= 0) find_benefit_chain
\* returns, each once, exactly the nodes whose shortest DEPENDS_ON path to the
\* start has between 1 and max_hops edges, in non-decreasing order of that
\* length; with max_hops <= 0 it returns nothing, and with the default of 5 a
\* scheme 6 edges away is absent.
C22_BreadthFirstComplete ==
    op = "find_benefit_chain" /\ IsOk(Result) =>
        LET start == args.scheme_id
            h     == args.max_hops
        IN  /\ NoDup(Returned)
            /\ Range(Returned) = DependentsWithin(graph, start, h) \ {start}
            /\ \A i, j \in 1..Len(Returned) :
                   i < j => ShortestPath(graph, Returned[i], start, h)
                               <= ShortestPath(graph, Returned[j], start, h)
            /\ h <= 0 => Returned = <<>>
            /\ h = MAX_HOPS =>
                   \A u \in DependentsWithin(graph, start, 6)
                               \ DependentsWithin(graph, start, 5) :
                       ~InSeq(u, Returned)

\* The chain of seven schemes walked from its end with the default max_hops:
\* five dependents in the order of their distance, the last scheme left out
C22_Witness ==
    /\ op = "find_benefit_chain"
    /\ catalog = ChainCatalog
    /\ args = [scheme_id |-> SchemeNode("s1"), max_hops |-> MAX_HOPS]
    /\ IsOk(Result)
    /\ Len(Returned) = 5
    /\ DependentsWithin(graph, SchemeNode("s1"), 6) \ Range(Returned)
           = {SchemeNode("s1"), SchemeNode("s7")}

\* The walk of find_benefit_chain is under way or has ended without an
\* exception
InWalk == op \in {"find_benefit_chain walking", "find_benefit_chain walked"} /\ IsOk(Result)

\* C23: on every dependency graph, with cycles, self-dependencies and
\* diamonds, a walk of find_benefit_chain that has started ends; it makes at
\* most max_hops frontier expansions, goes on only with a frontier that is not
\* empty, ends with an empty frontier or with max_hops expansions made, and
\* no node enters a frontier twice.
C23_WalkTerminates ==
    /\ [](InWalk =>
             /\ Returned.hops <= Max2(args.max_hops, 0)
             /\ NoDup(<<args.scheme_id>> \o Returned.dependents)
             /\ op = "find_benefit_chain walking" => Returned.frontier # <<>>
             /\ op = "find_benefit_chain walked" =>
                    \/ Returned.frontier = <<>>
                    \/ Returned.hops = Max2(args.max_hops, 0)
             /\ FindBenefitChain(graph, args.scheme_id, Returned.hops)
                    = Ok(Returned.dependents))
    /\ (op = "find_benefit_chain walking") ~> (op = "find_benefit_chain walked")

\* The walk over the cycle of three schemes has ended with its third
\* expansion, which found no scheme that was not visited
C23_Witness ==
    /\ op = "find_benefit_chain walked"
    /\ catalog = CycleCatalog
    /\ args = [scheme_id |-> SchemeNode("s1"), max_hops |-> MAX_HOPS]
    /\ IsOk(Result)
    /\ Returned.hops = 3
    /\ Returned.frontier = <<>>
    /\ Returned.dependents = <<SchemeNode("s2"), SchemeNode("s3")>>

\* The rule compares education levels and its value is no level of the ladder
UnknownEducation(rule) ==
    /\ rule.rule_type \in {"education_min", "education_max"}
    /\ ~(Len(rule.value) = 1 /\ InSeq(rule.value[1], EduLadder))

\* C24: an education_min or education_max rule whose value is none of the
\* seven levels of the ladder evaluates to false for every citizen.
C24_UnknownEducationRefuses ==
    op = "evaluate_rule" /\ UnknownEducation(args.rule) => Result = Ok(FALSE)

\* The scheme a of the catalog lists b, a scheme of the catalog, in depends_on
DeclaresDependency(a, b) ==
    /\ b \in CatalogIds
    /\ \E i \in 1..Len(catalog) :
           catalog[i].scheme_id = a /\ InSeq(b, catalog[i].depends_on)

\* C25: for two different schemes s and d of the catalog with d in the
\* depends_on list of s, the graph has the edge s -> d with the relation
\* DEPENDS_ON and find_benefit_chain(d) holds s, whatever conflicts the two
\* declare and whatever the order of the catalog.
C25_DependenciesKept ==
    \A s, d \in CatalogIds :
        s # d /\ DeclaresDependency(s, d) =>
            /\ GetEdgeData(graph, SchemeNode(s), SchemeNode(d)) = <<"DEPENDS_ON">>
            /\ op = "find_benefit_chain" /\ args.scheme_id = SchemeNode(d)
                   /\ args.max_hops = MAX_HOPS
               => IsOk(Result) /\ InSeq(SchemeNode(s), Returned)

\* detect_conflicts([s, t]) reports the pair of the two schemes
ReportsPair(g, s, t) ==
    LET r == DetectConflicts(g, <<SchemeNode(s), SchemeNode(t)>>)
    IN  /\ IsOk(r)
        /\ \E i \in 1..Len(r.value) : Range(r.value[i]) = {SchemeNode(s), SchemeNode(t)}

\* C26: for two different schemes s and t of the catalog, the match of s in
\* the result of discover_schemes lists the name of t in conflicts iff
\* detect_conflicts([s, t]) reports the pair {s, t}, also when only t
\* declares the conflict.
C26_MatchConflictsAgree ==
    op = "discover_schemes" /\ IsOk(Result) =>
        \A s, t \in CatalogIds :
            s # t =>
                (InSeq(SchemeMapGet(catalog, t).name, MatchOf(Returned, s).conflicts)
                    <=> ReportsPair(graph, s, t))

(***************************************************************************)
(* Properties of the requests on applications                              *)
(***************************************************************************)
\* The audit entries of the tier-execution attempts of an application, in
\* the order of the audit trail
Attempts(app) ==
    SelectSeq(app.audit_trail, LAMBDA e : e.action = "Tier submission attempt")

\* The audit trail holds an attempt on the tier with the given success
Attempted(app, tier, success) ==
    \E k \in 1..Len(Attempts(app)) :
        Attempts(app)[k].tier = tier /\ Attempts(app)[k].success = success

\* C27: in every stored application, a recorded fallback to a tier is
\* followed by an attempt on that tier, 'Submission failed' is recorded only
\* when an attempt on tier 3 has failed, and execution_tier is a tier on
\* which an attempt was made.
C27_TiersFallBack ==
    \A i \in 1..Len(applications) :
        LET app   == applications[i]
            trail == app.audit_trail
        IN  /\ \A k \in 1..Len(trail) :
                   trail[k].action = "Tier fallback" =>
                       \E j \in (k + 1)..Len(trail) :
                           /\ trail[j].action = "Tier submission attempt"
                           /\ trail[j].tier = trail[k].tier
            /\ (\E k \in 1..Len(trail) : trail[k].action = "Submission failed")
                   => Attempted(app, 3, FALSE)
            /\ \E k \in 1..Len(Attempts(app)) :
                   Attempts(app)[k].tier = app.execution_tier

\* The store after a call holds the applications it held before, unchanged
\* and at their places
KeepsApplications ==
    /\ Len(applications') >= Len(applications)
    /\ \A i \in 1..Len(applications) : applications'[i] = applications[i]

\* C28: for a known scheme submit_application makes between one and
\* MAX_RETRIES attempts, numbered in order in the audit trail, none after a
\* successful one; the application it returns is the one it stores, and it
\* is submitted with a confirmation number and a submission date iff an
\* attempt succeeded, and a draft without confirmation number otherwise.
\* For an unknown scheme it raises ValueError and leaves the store as it was.
C28_SubmitOutcome ==
    /\ [](op = "submit_application" =>
            IF args.scheme_id \in CatalogIds
            THEN /\ IsOk(Result)
                 /\ applications # <<>> /\ applications[Len(applications)] = Returned
                 /\ LET att == Attempts(Returned)
                    IN  /\ Len(att) \in 1..MAX_RETRIES
                        /\ \A k \in 1..Len(att) :
                               att[k].attempt = k /\ (k < Len(att) => ~att[k].success)
                        /\ IF att[Len(att)].success
                           THEN /\ Returned.status = "submitted"
                                /\ Returned.confirmation_number # ""
                                /\ Returned.submission_date # <<>>
                           ELSE /\ Returned.status = "draft"
                                /\ Returned.confirmation_number = ""
                                /\ Returned.submission_date = <<>>
            ELSE Result = Raise("ValueError"))
    /\ [][op' = "submit_application" =>
              /\ KeepsApplications
              /\ Len(applications') = Len(applications)
                     + (IF args'.scheme_id \in CatalogIds THEN 1 ELSE 0)]_vars

\* submit_application succeeded at its second attempt
C28_Witness ==
    /\ op = "submit_application"
    /\ IsOk(Result)
    /\ Returned.status = "submitted"
    /\ Len(Attempts(Returned)) = 2
    /\ ~Attempts(Returned)[1].success /\ Attempts(Returned)[2].success

\* The changes of status the requests make
StatusMoves ==
    {<<"submitted", "under_review">>, <<"under_review", "approved">>,
     <<"under_review", "rejected">>, <<"rejected", "appealed">>}

\* C29: over the submit, status and appeal requests a stored application
\* stays stored and changes its status only along submitted -> under_review,
\* under_review -> approved, under_review -> rejected and rejected ->
\* appealed, every change of status adds an entry to its audit trail, a
\* status request changes no application that is draft, approved, rejected
\* or appealed, an appeal of an application that is not rejected is refused
\* and changes nothing, and a rejected or appealed application has a
\* rejection_reason.
C29_StatusLifecycle ==
    /\ [](\A i \in 1..Len(applications) :
              applications[i].status \in {"rejected", "appealed"}
                  => applications[i].rejection_reason # <<>>)
    /\ [][/\ Len(applications') >= Len(applications)
          /\ \A i \in 1..Len(applications) :
                 LET a == applications[i]
                     b == applications'[i]
                 IN  /\ a.status # b.status =>
                            /\ <<a.status, b.status>> \in StatusMoves
                            /\ Len(b.audit_trail) = Len(a.audit_trail) + 1
                     /\ a.status = b.status => b = a
                     /\ op' = "GET /{application_id}"
                            /\ a.status \in {"draft", "approved", "rejected", "appealed"}
                        => b = a
                     /\ op' = "POST /{application_id}/appeal"
                            /\ args'.application_id = i /\ a.status # "rejected"
                        => b = a /\ ret'[op'] = Raise("HTTP 400")]_vars

\* An application that went all the way to appealed
C29_Witness ==
    /\ op = "POST /{application_id}/appeal"
    /\ IsOk(Result)
    /\ applications[args.application_id].status = "appealed"
    /\ applications[args.application_id].appeal_letter = "hindi letter"
    /\ Len(applications[args.application_id].audit_trail) = 6

(***************************************************************************)
(* Properties of the pipeline                                              *)
(***************************************************************************)
\* The entry of eligible_schemes for the scheme
SummaryOf(state, scheme_id) ==
    SelectSeq(state.eligible_schemes, LAMBDA e : e.scheme_id = scheme_id)

\* C30: start_workflow without scheme_id submits an application only for a
\* scheme whose match has is_eligible = true, and none when the citizen is
\* eligible for no scheme; whatever the scheme_id, it returns at the stage
\* complete or failed and get_pipeline finds the state it returned.
C30_AutoSelectsEligible ==
    op = "start_workflow" =>
        /\ Returned.current_stage \in {"complete", "failed"}
        /\ GetPipeline(pipelines, Returned.pipeline_id) = <<Returned>>
        /\ args.scheme_id = "" /\ Returned.application # <<>> =>
               \E i \in 1..Len(Returned.eligible_schemes) :
                   /\ Returned.eligible_schemes[i].scheme_id
                          = Returned.application[1].scheme_id
                   /\ Returned.eligible_schemes[i].is_eligible
        /\ args.scheme_id = ""
               /\ (\A i \in 1..Len(Returned.eligible_schemes) :
                       ~Returned.eligible_schemes[i].is_eligible)
           => Returned.application = <<>> /\ applications = <<>>

====
